---- MODULE Spec2Model ----
(***************************************************************************)
(* Model of the design-inspiration aggregation backend.                   *)
(*                                                                         *)
(* The repository holds several variants of one Express server:           *)
(*   src/server.js            - SerpAPI + Freepik, Promise.all fan-out     *)
(*   src/unnamed/part_000     - two programs: lines 1-382 (SerpAPI +       *)
(*                              Freepik) and lines 384-1074 (Google CSE +  *)
(*                              Pinterest + Freepik, filterDuplicates)     *)
(*   src/updatedserver.txt    - scrapers + SerpAPI, Promise.allSettled,    *)
(*                              dedup / sort / slice                       *)
(*                                                                         *)
(* Strings are sequences of one-character strings, so that the regular    *)
(* expressions and string operations of the source are computed on        *)
(* characters.  An absent query parameter (undefined) and the empty       *)
(* string are both the empty sequence: the source only tests them for     *)
(* truthiness.                                                             *)
(***************************************************************************)
EXTENDS Integers, Sequences, FiniteSets, TLC

VARIABLES
  pc,             \* position of the request handler (or of the function harness)
  req,            \* req.query of the request being served
  calls,          \* the promises of the fan-out: slot -> [fn, st, val]
  aiSuggestions,  \* const aiSuggestions (the generative provider's text)
  colorPalette,   \* const colorPalette
  heading,        \* const heading
  res,            \* what was sent with res.status(..).json(..)
  invoked,        \* number of provider adapter calls made for the request
  relatedTerms,   \* const relatedTerms (src/updatedserver.txt)
  browser,        \* let browser (src/updatedserver.txt): the shared Puppeteer handle
  chromium        \* the browser processes started by puppeteer.launch

vars == <<pc, req, calls, aiSuggestions, colorPalette, heading, res, invoked,
          relatedTerms, browser, chromium>>

(***************************************************************************)
(* Bounds of the model.                                                    *)
(***************************************************************************)
MaxTextLen == 5     \* longest text given to extractHeading
MaxTokens == 3      \* most words in a text given to the colour extractors

(***************************************************************************)
(* Characters and strings.                                                 *)
(***************************************************************************)
Min(a, b) == IF a < b THEN a ELSE b

SeqsUpTo(S, n) == UNION {[1..k -> S] : k \in 0..n}

\* \s of a JavaScript regular expression, and what String.prototype.trim strips
Whitespace == {" ", "\n", "\t"}

\* [A-Fa-f0-9]
HexDigit == {"0", "1", "2", "3", "4", "5", "6", "7", "8", "9",
             "A", "B", "C", "D", "E", "F", "a", "b", "c", "d", "e", "f"}

UpperCase == <<"A", "B", "C", "D", "E", "F", "G", "H", "I", "J", "K", "L", "M",
               "N", "O", "P", "Q", "R", "S", "T", "U", "V", "W", "X", "Y", "Z">>
LowerCase == <<"a", "b", "c", "d", "e", "f", "g", "h", "i", "j", "k", "l", "m",
               "n", "o", "p", "q", "r", "s", "t", "u", "v", "w", "x", "y", "z">>

\* \w of a regular expression (the complement decides \b)
WordChar == {UpperCase[i] : i \in 1..26} \cup {LowerCase[i] : i \in 1..26}
            \cup {"0", "1", "2", "3", "4", "5", "6", "7", "8", "9", "_"}

toLowerCaseChar(c) ==
  IF \E i \in 1..26 : UpperCase[i] = c
  THEN LowerCase[CHOOSE i \in 1..26 : UpperCase[i] = c]
  ELSE c

toLowerCase(s) == [i \in 1..Len(s) |-> toLowerCaseChar(s[i])]

\* String.prototype.trim
RECURSIVE trimStart(_)
trimStart(s) ==
  IF s = <<>> THEN <<>>
  ELSE IF Head(s) \in Whitespace THEN trimStart(Tail(s)) ELSE s

RECURSIVE trimEnd(_)
trimEnd(s) ==
  IF s = <<>> THEN <<>>
  ELSE IF s[Len(s)] \in Whitespace THEN trimEnd(SubSeq(s, 1, Len(s) - 1)) ELSE s

trim(s) == trimEnd(trimStart(s))

\* index of the first "\n" at or after i, Len(s) + 1 when there is none
RECURSIVE NextNewline(_, _)
NextNewline(s, i) ==
  IF i > Len(s) THEN Len(s) + 1
  ELSE IF s[i] = "\n" THEN i ELSE NextNewline(s, i + 1)

\* length of the run of whitespace starting at i
RECURSIVE WhitespaceRun(_, _)
WhitespaceRun(s, i) ==
  IF i > Len(s) \/ s[i] \notin Whitespace THEN 0 ELSE 1 + WhitespaceRun(s, i + 1)

\* Array.prototype.includes / Set membership of a sequence
Includes(seq, x) == \E i \in 1..Len(seq) : seq[i] = x

\* o.k of a JavaScript object: undefined (here <<>>) when o has no property k
Undefined == <<>>
Get(o, k) == IF k \in DOMAIN o THEN o[k] ELSE Undefined

\* [...new Set(seq)]: first occurrences, insertion order kept
RECURSIVE Unique(_)
Unique(seq) ==
  IF seq = <<>> THEN <<>>
  ELSE LET init == Unique(SubSeq(seq, 1, Len(seq) - 1))
           last == seq[Len(seq)]
       IN IF Includes(init, last) THEN init ELSE Append(init, last)

\* Array.prototype.slice(0, n)
Slice0(seq, n) == SubSeq(seq, 1, Min(n, Len(seq)))

\* Array.prototype.flatMap / spreading a list of lists
RECURSIVE Flatten(_)
Flatten(seqs) == IF seqs = <<>> THEN <<>> ELSE Head(seqs) \o Flatten(Tail(seqs))

NoDuplicates(seq) == \A i, j \in 1..Len(seq) : i /= j => seq[i] /= seq[j]

(***************************************************************************)
(* extractHeading                                                          *)
(*   /^#\s+([^\n]+)|^##\s+([^\n]+)|^(.+?)\n/                                *)
(***************************************************************************)
DefaultHeading ==
  <<"D", "e", "s", "i", "g", "n", " ", "R", "e", "c", "o", "m", "m", "e", "n",
    "d", "a", "t", "i", "o", "n", "s">>

\* ^<marker>\s+([^\n]+) with a marker of n "#": the captured group, <<>> when
\* the alternative does not match.  \s+ is greedy and gives characters back
\* until the character after it is not a newline; [^\n]+ then runs to the
\* next newline or the end.
MarkerGroup(s, n) ==
  LET run == WhitespaceRun(s, n + 1)
      ks == {k \in 1..run : n + k + 1 <= Len(s) /\ s[n + k + 1] /= "\n"}
  IN IF Len(s) < n \/ (\E i \in 1..n : s[i] /= "#") \/ ks = {}
     THEN <<>>
     ELSE LET k == CHOOSE x \in ks : \A y \in ks : y <= x
              from == n + k + 1
          IN SubSeq(s, from, NextNewline(s, from) - 1)

\* ^(.+?)\n : the shortest non-empty run of non-newline characters that a
\* newline follows
FirstLineGroup(s) ==
  LET nl == NextNewline(s, 1)
  IN IF nl >= 2 /\ nl <= Len(s) THEN SubSeq(s, 1, nl - 1) ELSE <<>>

\* a plausible slip: the matched group is returned without .trim()
extractHeadingUntrimmed(text) ==
  LET g1 == MarkerGroup(text, 1)
      g2 == MarkerGroup(text, 2)
      g3 == FirstLineGroup(text)
  IN IF g1 /= <<>> THEN g1
     ELSE IF g2 /= <<>> THEN g2
     ELSE IF g3 /= <<>> THEN g3
     ELSE DefaultHeading

extractHeading(text) ==
  LET g1 == MarkerGroup(text, 1)
      g2 == MarkerGroup(text, 2)
      g3 == FirstLineGroup(text)
  IN IF g1 /= <<>> THEN trim(g1)
     ELSE IF g2 /= <<>> THEN trim(g2)
     ELSE IF g3 /= <<>> THEN trim(g3)
     ELSE DefaultHeading

(***************************************************************************)
(* nlpUtils.extractAdvancedColorPalette and its helpers (src/server.js),   *)
(* and the older extractColorPalette (src/unnamed/part_000).               *)
(***************************************************************************)
\* number of hex digits starting at i, counted up to 6
RECURSIVE HexRun(_, _, _)
HexRun(s, i, n) ==
  IF n = 6 \/ i > Len(s) \/ s[i] \notin HexDigit THEN n ELSE HexRun(s, i + 1, n + 1)

\* aiSuggestions.match(/#([A-Fa-f0-9]{6}|[A-Fa-f0-9]{3})/g) || []
RECURSIVE HexCodesFrom(_, _)
HexCodesFrom(s, i) ==
  IF i > Len(s) THEN <<>>
  ELSE IF s[i] = "#" /\ HexRun(s, i + 1, 0) = 6
       THEN <<SubSeq(s, i, i + 6)>> \o HexCodesFrom(s, i + 7)
  ELSE IF s[i] = "#" /\ HexRun(s, i + 1, 0) >= 3
       THEN <<SubSeq(s, i, i + 3)>> \o HexCodesFrom(s, i + 4)
  ELSE HexCodesFrom(s, i + 1)

HexCodes(s) == HexCodesFrom(s, 1)

colorMap == <<
  [name |-> <<"r", "e", "d">>,
   colors |-> << <<"#", "F", "F", "0", "0", "0", "0">>,
                 <<"#", "D", "C", "1", "4", "3", "C">>,
                 <<"#", "B", "2", "2", "2", "2", "2">> >>],
  [name |-> <<"b", "l", "u", "e">>,
   colors |-> << <<"#", "0", "0", "0", "0", "F", "F">>,
                 <<"#", "1", "E", "9", "0", "F", "F">>,
                 <<"#", "4", "1", "6", "9", "E", "1">> >>],
  [name |-> <<"g", "r", "e", "e", "n">>,
   colors |-> << <<"#", "0", "0", "8", "0", "0", "0">>,
                 <<"#", "3", "2", "C", "D", "3", "2">>,
                 <<"#", "3", "C", "B", "3", "7", "1">> >>],
  [name |-> <<"y", "e", "l", "l", "o", "w">>,
   colors |-> << <<"#", "F", "F", "D", "7", "0", "0">>,
                 <<"#", "F", "F", "F", "F", "0", "0">>,
                 <<"#", "F", "F", "A", "5", "0", "0">> >>],
  [name |-> <<"p", "u", "r", "p", "l", "e">>,
   colors |-> << <<"#", "8", "0", "0", "0", "8", "0">>,
                 <<"#", "8", "A", "2", "B", "E", "2">>,
                 <<"#", "9", "4", "0", "0", "D", "3">> >>],
  [name |-> <<"o", "r", "a", "n", "g", "e">>,
   colors |-> << <<"#", "F", "F", "A", "5", "0", "0">>,
                 <<"#", "F", "F", "4", "5", "0", "0">>,
                 <<"#", "F", "F", "6", "3", "4", "7">> >>],
  [name |-> <<"p", "i", "n", "k">>,
   colors |-> << <<"#", "F", "F", "C", "0", "C", "B">>,
                 <<"#", "F", "F", "6", "9", "B", "4">>,
                 <<"#", "F", "F", "1", "4", "9", "3">> >>],
  [name |-> <<"b", "r", "o", "w", "n">>,
   colors |-> << <<"#", "8", "B", "4", "5", "1", "3">>,
                 <<"#", "A", "5", "2", "A", "2", "A">>,
                 <<"#", "D", "2", "6", "9", "1", "E">> >>],
  [name |-> <<"g", "r", "a", "y">>,
   colors |-> << <<"#", "8", "0", "8", "0", "8", "0">>,
                 <<"#", "A", "9", "A", "9", "A", "9">>,
                 <<"#", "6", "9", "6", "9", "6", "9">> >>],
  [name |-> <<"b", "l", "a", "c", "k">>,
   colors |-> << <<"#", "0", "0", "0", "0", "0", "0">> >>],
  [name |-> <<"w", "h", "i", "t", "e">>,
   colors |-> << <<"#", "F", "F", "F", "F", "F", "F">> >> ] >>

\* does \b<name>\b match (case-insensitively) at position i of s
NameAt(s, i, name) ==
  /\ i + Len(name) - 1 <= Len(s)
  /\ toLowerCaseChar(s[i]) = name[1]
  /\ (i = 1 \/ s[i - 1] \notin WordChar)
  /\ (i + Len(name) > Len(s) \/ s[i + Len(name)] \notin WordChar)
  /\ toLowerCase(SubSeq(s, i, i + Len(name) - 1)) = name

\* (aiSuggestions.match(colorNameRegex) || []).map(c => c.toLowerCase())
RECURSIVE ColorNamesFrom(_, _)
ColorNamesFrom(s, i) ==
  IF i > Len(s) THEN <<>>
  ELSE IF \E k \in 1..Len(colorMap) : NameAt(s, i, colorMap[k].name)
       THEN LET k == CHOOSE x \in 1..Len(colorMap) : NameAt(s, i, colorMap[x].name)
            IN <<colorMap[k].name>> \o ColorNamesFrom(s, i + Len(colorMap[k].name))
  ELSE ColorNamesFrom(s, i + 1)

ColorNames(s) == ColorNamesFrom(s, 1)

generateColorFromNames(colorNames) ==
  Flatten([i \in 1..Len(colorNames) |->
            (CHOOSE e \in {colorMap[k] : k \in 1..Len(colorMap)} :
               e.name = colorNames[i]).colors])

\* a plausible slip: the rotation does return another colour text
rotateHueChanged(hex, degrees) == toLowerCase(hex)

\* the two colour utilities of the source return their argument unchanged
rotateHue(hex, degrees) == hex

\* percent is given in hundredths (0.2 is 20)
adjustColorBrightness(hex, percent) == hex

generateComplementaryColors(baseColor) ==
  <<adjustColorBrightness(baseColor, 20), adjustColorBrightness(baseColor, -20)>>

generateAnalogousColors(baseColor) ==
  <<rotateHue(baseColor, 30), rotateHue(baseColor, -30)>>

generateTriadicColors(baseColor) ==
  <<rotateHue(baseColor, 120), rotateHue(baseColor, -120)>>

\* Object.keys(colorTheoryMappings); Math.random picks one of them
colorTheoryMappings == <<"complementary", "analogous", "triadic">>

ApplyScheme(generativeScheme, baseColor) ==
  CASE generativeScheme = "complementary" -> generateComplementaryColors(baseColor)
    [] generativeScheme = "analogous" -> generateAnalogousColors(baseColor)
    [] generativeScheme = "triadic" -> generateTriadicColors(baseColor)

\* a plausible slip: the colour-theory step is left out
extractAdvancedColorPaletteNoSynthesis(text, inputColor, generativeScheme) ==
  Slice0(Unique(HexCodes(text)
                \o (IF inputColor /= <<>> THEN <<inputColor>> ELSE <<>>)
                \o generateColorFromNames(ColorNames(text))), 5)

\* generativeScheme stands for the outcome of Math.random
extractAdvancedColorPalette(text, inputColor, generativeScheme) ==
  LET hexCodes == HexCodes(text)
      colorNames == ColorNames(text)
      allColors == Unique(hexCodes
                          \o (IF inputColor /= <<>> THEN <<inputColor>> ELSE <<>>)
                          \o generateColorFromNames(colorNames))
      extended == IF Len(allColors) < 3 /\ Len(allColors) > 0
                  THEN allColors \o ApplyScheme(generativeScheme, allColors[1])
                  ELSE allColors
  IN Slice0(extended, 5)

\* extractColorPalette of the first program of src/unnamed/part_000
extractColorPaletteSimple(text) == Slice0(HexCodes(text), 3)

(***************************************************************************)
(* State shared by the specifications.                                     *)
(***************************************************************************)
NoQuery == [q |-> <<>>, font |-> <<>>, color |-> <<>>, sortBy |-> <<>>,
            ai |-> <<>>, platforms |-> <<>>]

NoResponse == [status |-> 0, images |-> <<>>]

(***************************************************************************)
(* SpecHeading: extractHeading applied to every text of at most            *)
(* MaxTextLen characters over HeadingAlphabet, and to the example of the   *)
(* specification.                                                          *)
(***************************************************************************)
HeadingAlphabet == {"#", " ", "\n", "a"}

HeadingExample ==
  <<"#", " ", "B", "o", "l", "d", " ", "M", "o", "d", "e", "r", "n", "\n",
    "#", "#", " ", "C", "O", "L", "O", "R">>

HeadingTexts == SeqsUpTo(HeadingAlphabet, MaxTextLen) \cup {HeadingExample}

InitHeading ==
  /\ pc = "input"
  /\ aiSuggestions \in HeadingTexts
  /\ req = NoQuery
  /\ calls = <<>>
  /\ colorPalette = <<>>
  /\ heading = <<>>
  /\ res = NoResponse
  /\ invoked = 0
  /\ relatedTerms = <<>>
  /\ browser = "undefined"
  /\ chromium = <<>>

ApplyExtractHeading ==
  /\ pc = "input"
  /\ pc' = "extractHeading"
  /\ heading' = extractHeading(aiSuggestions)
  /\ UNCHANGED <<req, calls, aiSuggestions, colorPalette, res, invoked, relatedTerms, browser, chromium>>

NextHeading == ApplyExtractHeading

SpecHeading == InitHeading /\ [][NextHeading]_vars

\* the first line of a text, and whether a newline ends it
FirstLine(s) == SubSeq(s, 1, NextNewline(s, 1) - 1)
HasNewline(s) == NextNewline(s, 1) <= Len(s)

\* T of a markdown heading line "# T" or "## T"; <<>> for any other line
MarkdownHeadingText(line) ==
  IF Len(line) >= 2 /\ line[1] = "#" /\ line[2] = " "
  THEN SubSeq(line, 3, Len(line))
  ELSE IF Len(line) >= 3 /\ line[1] = "#" /\ line[2] = "#" /\ line[3] = " "
       THEN SubSeq(line, 4, Len(line))
       ELSE <<>>

HeadingLineCase ==
  /\ pc = "extractHeading"
  /\ HasNewline(aiSuggestions)
  /\ trim(MarkdownHeadingText(FirstLine(aiSuggestions))) /= <<>>

C10_PlainTextIsHeading ==
  pc = "extractHeading" =>
    /\ (aiSuggestions /= <<>> /\ ~HasNewline(aiSuggestions) /\ aiSuggestions[1] /= "#")
         => heading = trim(aiSuggestions)
    /\ heading = DefaultHeading => aiSuggestions = <<>>

(***************************************************************************)
(* SpecPalette: the colour extractors applied to every text of at most     *)
(* MaxTokens words of PaletteWords, with and without an input colour.      *)
(***************************************************************************)
PaletteWords == {
  <<"#", "F", "F", "5", "7", "3", "3">>,
  <<"#", "3", "3", "F", "F", "5", "7">>,
  <<"#", "F", "0", "0">>,
  <<"#", "F", "0", "0", "5">>,
  <<"#", "1", "2">>,
  <<"r", "e", "d">>,
  <<"B", "l", "a", "c", "k">> }

InputColors == {<<>>, <<"#", "F", "0", "0">>, <<"#", "0", "0", "0", "0", "0", "0">>}

\* words.join(" ")
RECURSIVE JoinWords(_)
JoinWords(words) ==
  IF words = <<>> THEN <<>>
  ELSE IF Len(words) = 1 THEN words[1]
  ELSE words[1] \o <<" ">> \o JoinWords(Tail(words))

PaletteTexts == {JoinWords(ws) : ws \in SeqsUpTo(PaletteWords, MaxTokens)}

InitPalette ==
  /\ pc = "input"
  /\ aiSuggestions \in PaletteTexts
  /\ \E c \in InputColors : req = [NoQuery EXCEPT !.color = c]
  /\ calls = <<>>
  /\ colorPalette = <<>>
  /\ heading = <<>>
  /\ res = NoResponse
  /\ invoked = 0
  /\ relatedTerms = <<>>
  /\ browser = "undefined"
  /\ chromium = <<>>

ApplyExtractAdvancedColorPalette ==
  /\ pc = "input"
  /\ pc' = "extractAdvancedColorPalette"
  /\ \E k \in 1..Len(colorTheoryMappings) :
       colorPalette' =
         extractAdvancedColorPalette(aiSuggestions, req.color, colorTheoryMappings[k])
  /\ UNCHANGED <<req, calls, aiSuggestions, heading, res, invoked, relatedTerms, browser, chromium>>

ApplyExtractColorPaletteSimple ==
  /\ pc = "input"
  /\ req.color = <<>>
  /\ pc' = "extractColorPalette"
  /\ colorPalette' = extractColorPaletteSimple(aiSuggestions)
  /\ UNCHANGED <<req, calls, aiSuggestions, heading, res, invoked, relatedTerms, browser, chromium>>

NextPalette == ApplyExtractAdvancedColorPalette \/ ApplyExtractColorPaletteSimple

SpecPalette == InitPalette /\ [][NextPalette]_vars

\* C7 (as claimed): the palette returned by the extractor has at most 5
\* entries and no entry twice.
C7_PaletteAtMostFiveUnique ==
  pc = "extractAdvancedColorPalette" =>
    Len(colorPalette) <= 5 /\ NoDuplicates(colorPalette)

\* C8 (as claimed): with no colour name in the text and no input colour, a
\* text whose distinct hex codes form a list L of zero or two codes yields
\* exactly L.
C8_ExactlyTheCodes ==
  (/\ pc = "extractAdvancedColorPalette"
   /\ req.color = <<>>
   /\ ColorNames(aiSuggestions) = <<>>
   /\ Len(Unique(HexCodes(aiSuggestions))) \in {0, 2})
  => colorPalette = Unique(HexCodes(aiSuggestions))

\* the case of C8: no colour name in the text and no input colour
OnlyHexCodesCase ==
  /\ pc = "extractAdvancedColorPalette"
  /\ req.color = <<>>
  /\ ColorNames(aiSuggestions) = <<>>

\* C8 (amended): with no colour name in the text and no input colour, a text
\* without hex codes yields the empty palette, and a text whose distinct hex
\* codes form a list L of two codes yields L followed by the two colours
\* that one colour-theory rule produces from the first code of L.
C8_CodesThenSynthesized ==
  OnlyHexCodesCase =>
    LET L == Unique(HexCodes(aiSuggestions))
    IN /\ Len(L) = 0 => colorPalette = <<>>
       /\ Len(L) = 2 =>
            \E k \in 1..Len(colorTheoryMappings) :
              colorPalette = L \o ApplyScheme(colorTheoryMappings[k], L[1])

\* C8 witness: two distinct codes were extracted and two colours were added
C8_Witness ==
  /\ OnlyHexCodesCase
  /\ Len(Unique(HexCodes(aiSuggestions))) = 2
  /\ Len(colorPalette) = 4
  /\ colorPalette[1] /= colorPalette[2]

(***************************************************************************)
(* Provider adapters of src/server.js.                                     *)
(*                                                                         *)
(* An upstream reply is [ok, data]: ok = FALSE stands for every failure of *)
(* the HTTP call (network error, non-2xx, timeout) and for a payload       *)
(* without the expected field; data is the list of upstream entries.  A    *)
(* settled adapter call is [st, val, err]: st is "fulfilled" or            *)
(* "rejected", val the list it resolved to, err whether the upstream       *)
(* failed.                                                                 *)
(***************************************************************************)
Failure == [ok |-> FALSE, data |-> <<>>]

Fulfilled(list, failed) == [st |-> "fulfilled", val |-> list, err |-> failed]
Rejected == [st |-> "rejected", val |-> <<>>, err |-> TRUE]
Pending == [st |-> "pending", val |-> <<>>, err |-> FALSE]

Url1 == <<"h", "t", "t", "p", "s", ":", "/", "/", "a", "/", "1">>
Url2 == <<"h", "t", "t", "p", "s", ":", "/", "/", "a", "/", "2">>
Url3 == <<"h", "t", "t", "p", "s", ":", "/", "/", "b", "/", "3">>
Url4 == <<"h", "t", "t", "p", "s", ":", "/", "/", "b", "/", "4">>

TitleLogo == <<"a", "b", " ", "l", "o", "g", "o">>
TitleDesignInspiration ==
  <<"D", "e", "s", "i", "g", "n", " ", "I", "n", "s", "p", "i", "r", "a", "t", "i", "o", "n">>
TitleDesignResource ==
  <<"D", "e", "s", "i", "g", "n", " ", "R", "e", "s", "o", "u", "r", "c", "e">>
TitleAIGenerated ==
  <<"A", "I", " ", "G", "e", "n", "e", "r", "a", "t", "e", "d", " ", "D", "e", "s", "i", "g", "n">>

\* a || b on strings
OrElse(a, b) == IF a /= <<>> THEN a ELSE b

\* validateImage: the HEAD probe answered 200 with an image content type
\* (e.probe); a missing url makes axios.head throw, which is caught
validateImage(e) == e.original /= <<>> /\ e.probe

fetchSerpAPIImages(reply, limit) ==
  IF ~reply.ok THEN Fulfilled(<<>>, TRUE)
  ELSE Fulfilled(
         LET kept == SelectSeq(Slice0(reply.data, limit), validateImage)
         IN [i \in 1..Len(kept) |->
              [image |-> kept[i].original,
               title |-> OrElse(kept[i].title, TitleDesignInspiration),
               source |-> "Google Images"]],
         FALSE)

HasImage(img) == img.image /= <<>>

\* the upstream is asked for `limit` entries; the reply is not cut
fetchFreepikImages(reply, limit) ==
  IF ~reply.ok THEN Fulfilled(<<>>, TRUE)
  ELSE Fulfilled(
         SelectSeq([i \in 1..Len(reply.data) |->
                  [image |-> reply.data[i].url,
                   title |-> OrElse(reply.data[i].title, TitleDesignResource),
                   source |-> "Freepik"]],
                HasImage),
         FALSE)

fetchFreepikAIImage(reply) ==
  IF ~reply.ok THEN Fulfilled(<<>>, TRUE)
  ELSE Fulfilled(
         [i \in 1..Len(reply.data) |->
           [image |-> reply.data[i].url,
            title |-> TitleAIGenerated,
            source |-> "Freepik AI"]],
         FALSE)

(***************************************************************************)
(* getDesignSuggestions of src/server.js: the reply text with "**"         *)
(* removed and the markdown headings rewritten as HTML.  The two link      *)
(* rewrites are left out: no text of the model holds "[" or "http".        *)
(***************************************************************************)
CouldNotGenerate ==
  <<"C", "o", "u", "l", "d", " ", "n", "o", "t", " ", "g", "e", "n", "e", "r",
    "a", "t", "e", " ", "A", "I", " ", "s", "u", "g", "g", "e", "s", "t", "i",
    "o", "n", "s", ".">>

NoSuggestionsAvailable ==
  <<"N", "o", " ", "A", "I", " ", "s", "u", "g", "g", "e", "s", "t", "i", "o",
    "n", "s", " ", "a", "v", "a", "i", "l", "a", "b", "l", "e", ".">>

\* aiText.replace(/\*\*/g, '')
RECURSIVE RemoveAsterisks(_)
RemoveAsterisks(s) ==
  IF s = <<>> THEN <<>>
  ELSE IF Len(s) >= 2 /\ s[1] = "*" /\ s[2] = "*"
       THEN RemoveAsterisks(SubSeq(s, 3, Len(s)))
       ELSE <<Head(s)>> \o RemoveAsterisks(Tail(s))

\* does s continue at i with the characters of m
StartsAt(s, i, m) ==
  i + Len(m) - 1 <= Len(s) /\ SubSeq(s, i, i + Len(m) - 1) = m

\* aiText.replace(/<marker>([^\n]+)/g, '<open>$1<close>')
RECURSIVE ReplaceHeadingsFrom(_, _, _, _, _)
ReplaceHeadingsFrom(s, i, marker, open, close) ==
  IF i > Len(s) THEN <<>>
  ELSE LET from == i + Len(marker)
       IN IF StartsAt(s, i, marker) /\ from <= Len(s) /\ s[from] /= "\n"
          THEN LET nl == NextNewline(s, from)
               IN open \o SubSeq(s, from, nl - 1) \o close
                  \o ReplaceHeadingsFrom(s, nl, marker, open, close)
          ELSE <<s[i]>> \o ReplaceHeadingsFrom(s, i + 1, marker, open, close)

getDesignSuggestions(reply) ==
  IF ~reply.ok THEN CouldNotGenerate
  ELSE LET aiText0 == OrElse(reply.data, NoSuggestionsAvailable)
           aiText1 == RemoveAsterisks(aiText0)
           aiText2 == ReplaceHeadingsFrom(aiText1, 1, <<"#", " ">>,
                                          <<"<", "h", "1", ">">>,
                                          <<"<", "/", "h", "1", ">">>)
       IN ReplaceHeadingsFrom(aiText2, 1, <<"#", "#", " ">>,
                              <<"<", "h", "2", ">">>,
                              <<"<", "/", "h", "2", ">">>)

(***************************************************************************)
(* The /search handler of src/server.js.                                   *)
(***************************************************************************)
True == <<"t", "r", "u", "e">>

\* if (!q) return res.status(400)...
QueryMissingNever(q) == FALSE

QueryMissing(q) == q = <<>>

\* the state of Promise.all over the calls
PromiseAll(cs) ==
  IF \E i \in DOMAIN cs : cs[i].st = "rejected" THEN "rejected"
  ELSE IF \E i \in DOMAIN cs : cs[i].st /= "fulfilled" THEN "pending"
  ELSE "fulfilled"

\* images.map(img => ({ ...img, category }))
WithCategory(images, category) ==
  [i \in 1..Len(images) |->
    [image |-> images[i].image, title |-> images[i].title,
     source |-> images[i].source, category |-> category]]

\* the fan-out of src/server.js, in the order of the Promise.all array
ServerSlots == <<"industryFont", "colorStyle", "topIndustries", "freepikMain",
                 "freepikColor", "freepikVector", "freepikPsd">>

ServerLimit(i) == IF i \in {1, 2, 4, 5} THEN 10 ELSE 8

\* allImages of src/server.js; cs[3] (topIndustriesResults) is not used
ServerAllImages(cs, freepikAIResults) ==
  WithCategory(cs[1].val \o cs[2].val, "Combined Inspiration")
  \o WithCategory(cs[4].val, "Downloadable Design Resources")
  \o WithCategory(cs[5].val, "Downloadable Color Inspiration")
  \o WithCategory(cs[6].val, "Downloadable Vector Resources")
  \o WithCategory(cs[7].val, "Downloadable PSD Templates")
  \o WithCategory(freepikAIResults, "AI Generated Designs")

Response(status, images) == [status |-> status, images |-> images]

\* the requests and the upstream replies of the model
Queries == {<<>>, <<" ">>, <<"a", "b">>}
Colors == {<<>>, <<"#", "F", "0", "0">>}

GeminiReplies ==
  {Failure,
   [ok |-> TRUE, data |-> <<"#", " ", "A", "b", "\n", "#", "F", "0", "0", " ", "x">>]}

SerpReplies ==
  {Failure,
   [ok |-> TRUE,
    data |-> <<[original |-> Url1, title |-> TitleLogo, probe |-> TRUE],
               [original |-> Url2, title |-> <<>>, probe |-> TRUE]>>],
   [ok |-> TRUE,
    data |-> <<[original |-> Url3, title |-> TitleLogo, probe |-> TRUE],
               [original |-> Url2, title |-> TitleLogo, probe |-> FALSE]>>]}

FreepikReplies ==
  {Failure,
   [ok |-> TRUE,
    data |-> <<[url |-> Url1, title |-> <<>>], [url |-> <<>>, title |-> TitleLogo]>>]}

FreepikAIReplies ==
  {Failure, [ok |-> TRUE, data |-> <<[url |-> Url2], [url |-> <<>>]>>]}

Init ==
  /\ pc = "idle"
  /\ req = NoQuery
  /\ calls = <<>>
  /\ aiSuggestions = <<>>
  /\ colorPalette = <<>>
  /\ heading = <<>>
  /\ res = NoResponse
  /\ invoked = 0
  /\ relatedTerms = <<>>
  /\ browser = "undefined"
  /\ chromium = <<>>

\* lines 378-384: validation, then the generative call is started
Receive ==
  /\ pc = "idle"
  /\ \E q \in Queries, color \in Colors, ai \in {<<>>, True} :
       /\ req' = [NoQuery EXCEPT !.q = q, !.color = color, !.ai = ai]
       /\ IF QueryMissing(q)
          THEN /\ res' = Response(400, <<>>)
               /\ pc' = "done"
               /\ invoked' = invoked
          ELSE /\ res' = res
               /\ pc' = "awaitSuggestions"
               /\ invoked' = invoked + 1
  /\ UNCHANGED <<calls, aiSuggestions, colorPalette, heading, relatedTerms, browser, chromium>>

\* lines 384-413: the generative call settles; palette, heading and queries
\* are computed and the seven fetches are started
SuggestionsSettle ==
  /\ pc = "awaitSuggestions"
  /\ \E reply \in GeminiReplies, k \in 1..Len(colorTheoryMappings) :
       /\ aiSuggestions' = getDesignSuggestions(reply)
       /\ colorPalette' = extractAdvancedColorPalette(aiSuggestions', req.color,
                                                      colorTheoryMappings[k])
       /\ heading' = extractHeading(aiSuggestions')
  /\ calls' = [i \in 1..Len(ServerSlots) |-> Pending]
  /\ invoked' = invoked + Len(ServerSlots)
  /\ pc' = "awaitAll"
  /\ UNCHANGED <<req, res, relatedTerms, browser, chromium>>

\* one of the seven fetches settles
CallSettle ==
  /\ pc = "awaitAll"
  /\ \E i \in DOMAIN calls :
       /\ calls[i].st = "pending"
       /\ \/ /\ i \in 1..3
             /\ \E reply \in SerpReplies :
                  calls' = [calls EXCEPT ![i] = fetchSerpAPIImages(reply, ServerLimit(i))]
          \/ /\ i \in 4..7
             /\ \E reply \in FreepikReplies :
                  calls' = [calls EXCEPT ![i] = fetchFreepikImages(reply, ServerLimit(i))]
  /\ UNCHANGED <<pc, req, aiSuggestions, colorPalette, heading, res, invoked, relatedTerms, browser, chromium>>

\* lines 405-447: Promise.all settles.  A rejection goes to the catch block;
\* otherwise the AI image call is started when ai === "true", or the
\* response is sent
Join ==
  /\ pc = "awaitAll"
  /\ PromiseAll(calls) /= "pending"
  /\ IF PromiseAll(calls) = "rejected"
     THEN /\ res' = Response(500, <<>>)
          /\ pc' = "done"
          /\ invoked' = invoked
     ELSE IF req.ai = True
     THEN /\ res' = res
          /\ pc' = "awaitAIImage"
          /\ invoked' = invoked + 1
     ELSE /\ res' = Response(200, ServerAllImages(calls, <<>>))
          /\ pc' = "done"
          /\ invoked' = invoked
  /\ UNCHANGED <<req, calls, aiSuggestions, colorPalette, heading, relatedTerms, browser, chromium>>

\* lines 416-443: the AI image call settles and the response is sent
AIImageSettle ==
  /\ pc = "awaitAIImage"
  /\ \E reply \in FreepikAIReplies :
       LET ai == fetchFreepikAIImage(reply)
       IN /\ calls' = Append(calls, ai)
          /\ res' = Response(200, ServerAllImages(calls, ai.val))
  /\ pc' = "done"
  /\ UNCHANGED <<req, aiSuggestions, colorPalette, heading, invoked, relatedTerms, browser, chromium>>

Next == Receive \/ SuggestionsSettle \/ CallSettle \/ Join \/ AIImageSettle

Spec == Init /\ [][Next]_vars

\* C1 (as claimed): a request whose q is empty or only whitespace is answered
\* 400 and no provider adapter is invoked for it.
C1_BlankQueryRejected ==
  (pc /= "idle" /\ trim(req.q) = <<>>) =>
    (pc = "done" /\ res.status = 400 /\ invoked = 0)

\* C1 (amended): a request whose q is missing or empty is answered 400 and no
\* provider adapter is invoked for it.
C1_MissingQueryRejected ==
  (pc /= "idle" /\ req.q = <<>>) =>
    (pc = "done" /\ res.status = 400 /\ invoked = 0)

\* C1 witness: a request without q has been answered
C1_Witness == pc = "done" /\ req.q = <<>> /\ res.status = 400

\* a provider call that delivered its upstream's entries
Succeeded(c) == c.st = "fulfilled" /\ ~c.err

\* exactly one of the provider calls failed, every other one succeeded
ExactlyOneFailed ==
  \E k \in DOMAIN calls :
    /\ ~Succeeded(calls[k])
    /\ \A i \in DOMAIN calls \ {k} : Succeeded(calls[i])

\* an item with this image URL is in the response
InImages(url) == \E j \in 1..Len(res.images) : res.images[j].image = url

\* C2 (as claimed): when one provider call fails and the others succeed, the
\* response is a result (200) whose images hold the items of every other
\* provider call.
C2_PartialFailureTolerated ==
  (pc = "done" /\ req.q /= <<>> /\ ExactlyOneFailed) =>
    /\ res.status = 200
    /\ \A i \in DOMAIN calls : Succeeded(calls[i]) =>
         \A n \in 1..Len(calls[i].val) : InImages(calls[i].val[n].image)

\* C5 (as claimed): no two items of the images of a response share an image
\* URL.
C5_NoSharedImageUrl ==
  pc = "done" => \A i, j \in 1..Len(res.images) :
                   i /= j => res.images[i].image /= res.images[j].image

(***************************************************************************)
(* The deduplication steps: the Set loop of src/updatedserver.txt and      *)
(* filterDuplicates of the second program of src/unnamed/part_000.         *)
(***************************************************************************)
MaxGroupLen == 2    \* most items one provider contributes in SpecDedup

\* a plausible slip: the later copy replaces the earlier one
RECURSIVE DedupByImageLastWins(_)
DedupByImageLastWins(allImages) ==
  IF allImages = <<>> THEN <<>>
  ELSE LET rest == DedupByImageLastWins(Tail(allImages))
           first == Head(allImages)
       IN IF \E j \in 1..Len(rest) : Get(rest[j], "image") = Get(first, "image")
          THEN rest ELSE <<first>> \o rest

\* allImages.forEach(img => { if (!imageUrls.has(img.image)) {...push} })
RECURSIVE DedupByImage(_)
DedupByImage(allImages) ==
  IF allImages = <<>> THEN <<>>
  ELSE LET uniqueImages == DedupByImage(SubSeq(allImages, 1, Len(allImages) - 1))
           img == allImages[Len(allImages)]
       IN IF \E j \in 1..Len(uniqueImages) :
               Get(uniqueImages[j], "image") = Get(img, "image")
          THEN uniqueImages ELSE Append(uniqueImages, img)

\* filterDuplicates(images) with the Set seenUrls it closes over: the items
\* kept and the Set afterwards
RECURSIVE filterDuplicates(_, _)
filterDuplicates(images, seenUrls) ==
  IF images = <<>> THEN [kept |-> <<>>, seen |-> seenUrls]
  ELSE LET img == Head(images)
           drop == img.image = <<>> \/ img.image \in seenUrls
           rest == filterDuplicates(Tail(images),
                                    IF drop THEN seenUrls ELSE seenUrls \cup {img.image})
       IN [kept |-> (IF drop THEN <<>> ELSE <<img>>) \o rest.kept, seen |-> rest.seen]

\* the fan-out of the second program of part_000, in the order of its
\* Promise.all array
PlatformSlots == <<"enhanced", "color", "freepikMain", "freepikColor",
                   "freepikVector", "freepikPsd", "designPlatforms">>

\* the order in which that program hands the results to filterDuplicates
PlatformCombined(cs) == cs[7].val \o cs[1].val \o cs[2].val

\* a plausible slip: the Set of seen URLs outlives the request
SeenUrlsKept(previous) == previous

\* `const seenUrls = new Set()` inside the handler: empty for every request,
\* whatever earlier requests have seen
NewSeenUrls(previous) == {}

\* allImages of the second program of part_000, seenUrls as it is created
PlatformAllImagesFrom(cs, freepikAIResults, seenUrls) ==
  LET combined == filterDuplicates(PlatformCombined(cs), seenUrls)
      main == filterDuplicates(cs[3].val, combined.seen)
      color == filterDuplicates(cs[4].val, main.seen)
      vector == filterDuplicates(cs[5].val, color.seen)
      psd == filterDuplicates(cs[6].val, vector.seen)
      ai == filterDuplicates(freepikAIResults, psd.seen)
  IN WithCategory(combined.kept, "Combined Inspiration")
     \o WithCategory(main.kept, "Downloadable Design Resources")
     \o WithCategory(color.kept, "Downloadable Color Inspiration")
     \o WithCategory(vector.kept, "Downloadable Vector Resources")
     \o WithCategory(psd.kept, "Downloadable PSD Templates")
     \o WithCategory(ai.kept, "AI Generated Designs")

\* allImages of the second program of part_000
PlatformAllImages(cs, freepikAIResults) ==
  PlatformAllImagesFrom(cs, freepikAIResults, NewSeenUrls({}))

(***************************************************************************)
(* SpecDedup: both deduplication steps applied to every combination of     *)
(* three provider results of at most MaxGroupLen items.                    *)
(***************************************************************************)
ItemsOf(source, urls) ==
  {[image |-> u, title |-> TitleLogo, source |-> source] : u \in urls}

DedupResults(source, urls) ==
  {Fulfilled(list, FALSE) : list \in SeqsUpTo(ItemsOf(source, urls), MaxGroupLen)}

InitDedup ==
  /\ pc = "input"
  /\ \E google \in DedupResults("Google Images", {Url1, Url2}),
        pinterest \in DedupResults("Pinterest", {Url1, Url2}),
        ai \in DedupResults("Freepik AI", {Url1, Url2, <<>>}) :
       calls = <<Fulfilled(<<>>, FALSE), google, Fulfilled(<<>>, FALSE),
                 Fulfilled(<<>>, FALSE), Fulfilled(<<>>, FALSE),
                 Fulfilled(<<>>, FALSE), pinterest, ai>>
  /\ req = NoQuery
  /\ aiSuggestions = <<>>
  /\ colorPalette = <<>>
  /\ heading = <<>>
  /\ res = NoResponse
  /\ invoked = 0
  /\ relatedTerms = <<>>
  /\ browser = "undefined"
  /\ chromium = <<>>

\* the items in the order the Set loop of updatedserver.txt sees them
UpdatedDedupInput == Flatten([i \in 1..Len(calls) |-> calls[i].val])

\* the items in the order filterDuplicates sees them
PlatformDedupInput ==
  PlatformCombined(calls)
  \o Flatten([i \in 1..4 |-> calls[i + 2].val]) \o calls[8].val

ApplyDedupByImage ==
  /\ pc = "input"
  /\ pc' = "DedupByImage"
  /\ res' = Response(200, DedupByImage(UpdatedDedupInput))
  /\ UNCHANGED <<req, calls, aiSuggestions, colorPalette, heading, invoked, relatedTerms, browser, chromium>>

ApplyFilterDuplicates ==
  /\ pc = "input"
  /\ pc' = "filterDuplicates"
  /\ res' = Response(200, PlatformAllImages(calls, calls[8].val))
  /\ UNCHANGED <<req, calls, aiSuggestions, colorPalette, heading, invoked, relatedTerms, browser, chromium>>

NextDedup == ApplyDedupByImage \/ ApplyFilterDuplicates

SpecDedup == InitDedup /\ [][NextDedup]_vars

DedupInput ==
  IF pc = "filterDuplicates" THEN PlatformDedupInput ELSE UpdatedDedupInput

\* the image URLs (keys) among the items given to the step
DedupKeys == {DedupInput[i].image : i \in 1..Len(DedupInput)} \ {<<>>}

FirstWithKey(url) ==
  DedupInput[CHOOSE i \in 1..Len(DedupInput) :
               /\ DedupInput[i].image = url
               /\ \A j \in 1..(i - 1) : DedupInput[j].image /= url]

\* C4: after deduplication every key of the input has exactly one item in
\* the output, and that item is the earliest input item with the key,
\* whichever provider produced the later copies.
C4_FirstOccurrenceWins ==
  pc \in {"DedupByImage", "filterDuplicates"} =>
    \A url \in DedupKeys :
      /\ Cardinality({j \in 1..Len(res.images) : res.images[j].image = url}) = 1
      /\ \E j \in 1..Len(res.images) :
           /\ res.images[j].image = url
           /\ res.images[j].source = FirstWithKey(url).source
           /\ res.images[j].title = FirstWithKey(url).title

\* C4 witness: a key repeated by two different providers was collapsed
C4_Witness ==
  /\ pc = "filterDuplicates"
  /\ \E i, j \in 1..Len(DedupInput) :
       /\ i < j
       /\ DedupInput[i].image = DedupInput[j].image
       /\ DedupInput[i].image /= <<>>
       /\ DedupInput[i].source /= DedupInput[j].source
  /\ Len(res.images) < Len(DedupInput)

(***************************************************************************)
(* Provider adapters of src/updatedserver.txt.                             *)
(*                                                                         *)
(* A scraper is given `launch`: "none" when the shared browser handle was  *)
(* set when the scraper was called, otherwise the outcome ("ok" or         *)
(* "failed") of the initBrowser() it awaits before its try block.          *)
(***************************************************************************)
TitleDribbble ==
  <<"D", "r", "i", "b", "b", "b", "l", "e", " ", "D", "e", "s", "i", "g",
    "n">>
TitleDesignspiration ==
  <<"D", "e", "s", "i", "g", "n", "s", "p", "i", "r", "a", "t", "i", "o",
    "n", " ", "D", "e", "s", "i", "g", "n">>
TitleMuzli == <<"M", "u", "z", "l", "i", " ", "D", "e", "s", "i", "g", "n">>
TitleInstagram ==
  <<"I", "n", "s", "t", "a", "g", "r", "a", "m", " ", "D", "e", "s", "i",
    "g", "n", " ", "I", "n", "s", "p", "i", "r", "a", "t", "i", "o", "n">>
SuggestionsError ==
  <<"C", "o", "u", "l", "d", " ", "n", "o", "t", " ", "g", "e", "n", "e",
    "r", "a", "t", "e", " ", "A", "I", " ", "s", "u", "g", "g", "e", "s",
    "t", "i", "o", "n", "s", " ", "d", "u", "e", " ", "t", "o", " ", "a",
    "n", " ", "e", "r", "r", "o", "r", ".">>

\* String.prototype.split(sep) for a one-character separator
RECURSIVE Split(_, _)
Split(s, sep) ==
  IF ~Includes(s, sep) THEN <<s>>
  ELSE LET i == CHOOSE k \in 1..Len(s) :
                  s[k] = sep /\ \A j \in 1..(k - 1) : s[j] /= sep
       IN <<SubSeq(s, 1, i - 1)>> \o Split(SubSeq(s, i + 1, Len(s)), sep)

\* String.prototype.includes
Contains(s, sub) == \E i \in 1..(Len(s) + 1) : StartsAt(s, i, sub)

\* `${q} ${industry || ''} ${designStyle || ''} design inspiration`, with
\* industry and designStyle absent
primaryQuery(q) ==
  q \o
  <<" ", " ", " ", "d", "e", "s", "i", "g", "n", " ", "i", "n", "s", "p",
    "i", "r", "a", "t", "i", "o", "n">>

\* the loop of page.evaluate in scrapeDribbble
RECURSIVE DribbbleShots(_, _, _, _)
DribbbleShots(shots, limit, colorHex, data) ==
  IF shots = <<>> THEN data
  ELSE LET shot == Head(shots)
           skip == \/ ~shot.img
                   \/ /\ colorHex /= <<>>
                      /\ shot.chips
                      /\ ~shot.colorMatch
                      /\ 2 * Len(data) >= limit
           pushed == Append(data, [image |-> shot.src,
                                   title |-> OrElse(shot.title, TitleDribbble),
                                   source |-> "Dribbble"])
       IN IF skip THEN DribbbleShots(Tail(shots), limit, colorHex, data)
          ELSE IF Len(pushed) >= limit THEN pushed
          ELSE DribbbleShots(Tail(shots), limit, colorHex, pushed)

\* scrapeDribbble launches a browser of its own inside its try block
scrapeDribbble(reply, limit, colorHex) ==
  IF ~reply.ok THEN Fulfilled(<<>>, TRUE)
  ELSE Fulfilled(DribbbleShots(Slice0(reply.data, limit * 2), limit, colorHex, <<>>),
                 FALSE)

HasImg(item) == item.img

scrapeDesignspiration(reply, limit, launch) ==
  IF launch = "failed" THEN Rejected
  ELSE IF ~reply.ok THEN Fulfilled(<<>>, TRUE)
  ELSE Fulfilled(
         LET kept == SelectSeq(Slice0(reply.data, limit), HasImg)
         IN [i \in 1..Len(kept) |->
              [image |-> kept[i].src, title |-> TitleDesignspiration,
               source |-> "Designspiration"]],
         FALSE)

\* the loop of page.evaluate in scrapeMuzli
RECURSIVE MuzliItems(_, _, _, _)
MuzliItems(items, queryWords, limit, data) ==
  IF items = <<>> THEN data
  ELSE LET item == Head(items)
           title == IF item.titleEl THEN trim(item.title) ELSE TitleMuzli
           isRelevant == \E k \in 1..Len(queryWords) :
                           Contains(toLowerCase(title), queryWords[k])
           pushed == IF isRelevant \/ 2 * Len(data) < limit
                     THEN Append(data, [image |-> item.src, title |-> title,
                                        source |-> "Muzli"])
                     ELSE data
       IN IF ~item.img THEN MuzliItems(Tail(items), queryWords, limit, data)
          ELSE IF Len(pushed) >= limit THEN pushed
          ELSE MuzliItems(Tail(items), queryWords, limit, pushed)

scrapeMuzli(reply, query, limit, launch) ==
  IF launch = "failed" THEN Rejected
  ELSE IF ~reply.ok THEN Fulfilled(<<>>, TRUE)
  ELSE Fulfilled(MuzliItems(reply.data, Split(toLowerCase(query), " "), limit, <<>>),
                 FALSE)

HasSrc(post) == post.src /= <<>>

scrapeInstagram(reply, limit, launch) ==
  IF launch = "failed" THEN Rejected
  ELSE IF ~reply.ok THEN Fulfilled(<<>>, TRUE)
  ELSE Fulfilled(
         LET kept == SelectSeq(Slice0(reply.data, limit), HasSrc)
         IN [i \in 1..Len(kept) |->
              [image |-> kept[i].src,
               title |-> OrElse(kept[i].alt, TitleInstagram),
               source |-> "Instagram"]],
         FALSE)

\* fetchSerpAPIImages of updatedserver.txt: no probe of the image
UpdatedFetchSerpAPIImages(reply, limit) ==
  IF ~reply.ok THEN Fulfilled(<<>>, TRUE)
  ELSE Fulfilled(
         LET kept == Slice0(reply.data, limit)
         IN [i \in 1..Len(kept) |->
              [image |-> kept[i].original,
               title |-> OrElse(kept[i].title, TitleDesignInspiration),
               source |-> "Google Images"]],
         FALSE)

\* getDesignSuggestions of updatedserver.txt: the text as it was received
UpdatedGetDesignSuggestions(reply) ==
  IF ~reply.ok THEN Fulfilled(SuggestionsError, TRUE)
  ELSE Fulfilled(OrElse(reply.data, NoSuggestionsAvailable), FALSE)

NonEmpty(term) == term /= <<>>

\* text.split(',').map(term => term.trim()).filter(term => term.length > 0)
getRelatedDesignTerms(reply) ==
  IF ~reply.ok THEN <<>>
  ELSE LET terms == Split(reply.data, ",")
       IN SelectSeq([i \in 1..Len(terms) |-> trim(terms[i])], NonEmpty)

\* reply.data is the parsed JSON array, reply.ok = FALSE any failure
\* (request, missing array, JSON.parse)
getFontPairings(reply) ==
  IF ~reply.ok THEN Fulfilled(<<>>, TRUE) ELSE Fulfilled(reply.data, FALSE)

Custom == <<"C", "u", "s", "t", "o", "m">>

PaletteRole(index) ==
  CASE index = 0 -> "Primary"
    [] index = 1 -> "Secondary"
    [] index = 2 -> "Accent"
    [] index = 3 -> "Neutral Light"
    [] OTHER -> "Neutral Dark"

\* the catch block of generateColorPalette rethrows
generateColorPalette(reply) ==
  IF ~reply.ok THEN Rejected
  ELSE Fulfilled([i \in 1..Len(reply.data) |->
                   [hex |-> reply.data[i].hex, name |-> OrElse(reply.data[i].keyword, Custom),
                    role |-> PaletteRole(i - 1)]],
                 FALSE)

(***************************************************************************)
(* The /search handler of src/updatedserver.txt.                           *)
(***************************************************************************)
\* searchPromises: the adapter of each slot and the limit it is called with
UpdatedSearchPromises(q, font, color, terms) ==
  <<[fn |-> "scrapeDribbble", limit |-> 4],
    [fn |-> "fetchSerpAPIImages", limit |-> 3],
    [fn |-> "getDesignSuggestions", limit |-> 0],
    [fn |-> "scrapeDesignspiration", limit |-> 3],
    [fn |-> "scrapeMuzli", limit |-> 2]>>
  \o (IF Len(q) > 2 THEN <<[fn |-> "scrapeInstagram", limit |-> 2]>> ELSE <<>>)
  \o (IF font /= <<>> THEN <<[fn |-> "fetchSerpAPIImages", limit |-> 2]>> ELSE <<>>)
  \o (IF color /= <<>> THEN <<[fn |-> "fetchSerpAPIImages", limit |-> 2]>> ELSE <<>>)
  \o [i \in 1..Min(3, Len(terms)) |-> [fn |-> "fetchSerpAPIImages", limit |-> 2]]
  \o (IF font = <<>> THEN <<[fn |-> "getFontPairings", limit |-> 0]>> ELSE <<>>)
  \o (IF color /= <<>> THEN <<[fn |-> "generateColorPalette", limit |-> 0]>> ELSE <<>>)

Scrapers == {"scrapeDesignspiration", "scrapeMuzli", "scrapeInstagram"}

\* results[results.length - 1] is read for fontPairings and for colorPalette
UpdatedFontPairings(results, font) ==
  IF font = <<>> /\ results[Len(results)].st = "fulfilled"
  THEN results[Len(results)].val ELSE <<>>

UpdatedColorPalette(results, color) ==
  IF color /= <<>> /\ results[Len(results)].st = "fulfilled"
  THEN results[Len(results)].val ELSE <<>>

\* the loop that combines the image results; i counts from 1 here
UpdatedAllImages(results, font, color) ==
  Flatten([i \in 1..Len(results) |->
    IF \/ i = 3
       \/ (font = <<>> /\ i = Len(results))
       \/ (color /= <<>> /\ i = Len(results))
       \/ results[i].st /= "fulfilled"
    THEN <<>> ELSE results[i].val])

\* queryWords.filter(word => title.toLowerCase().includes(word)).length
Relevance(title, queryWords) ==
  Cardinality({k \in 1..Len(queryWords) : Contains(toLowerCase(title), queryWords[k])})

sourceOrder == <<"Dribbble", "Behance", "Designspiration", "Muzli", "Instagram",
                 "Google Images">>

\* sourceOrder.indexOf(a.source)
SourceIndex(img) ==
  IF "source" \in DOMAIN img /\ \E k \in 1..Len(sourceOrder) : sourceOrder[k] = img.source
  THEN (CHOOSE k \in 1..Len(sourceOrder) : sourceOrder[k] = img.source) - 1
  ELSE -1

\* a plausible slip: a sort that is not stable (equal keys come out reversed)
StableSortByKeyTiesReversed(images, keys) ==
  LET Rank(i) == Cardinality({j \in 1..Len(images) :
                    keys[j] < keys[i] \/ (keys[j] = keys[i] /\ j > i)}) + 1
  IN [r \in 1..Len(images) |-> images[CHOOSE i \in 1..Len(images) : Rank(i) = r]]

\* Array.prototype.sort with a comparator a, b -> key(a) - key(b): the sort
\* is stable, so the result is the order by (key, position)
StableSortByKey(images, keys) ==
  LET Rank(i) == Cardinality({j \in 1..Len(images) :
                    keys[j] < keys[i] \/ (keys[j] = keys[i] /\ j < i)}) + 1
  IN [r \in 1..Len(images) |-> images[CHOOSE i \in 1..Len(images) : Rank(i) = r]]

Relevant == <<"r", "e", "l", "e", "v", "a", "n", "c", "e">>
BySource == <<"s", "o", "u", "r", "c", "e">>

\* a.title.toLowerCase() throws a TypeError when an element has no title;
\* the comparator sees every element as soon as there are two
SortThrows(images, sortBy) ==
  /\ sortBy = Relevant
  /\ Len(images) >= 2
  /\ \E i \in 1..Len(images) : "title" \notin DOMAIN images[i]

\* sortedImages.slice(0, 12)
SliceLimit == 12

\* a plausible slip: the list is cut before it is sorted
UpdatedSortAfterSlice(images, sortBy, q) ==
  IF sortBy = Relevant
  THEN LET cut == Slice0(images, SliceLimit)
       IN StableSortByKey(cut,
            [i \in 1..Len(cut) |->
               0 - Relevance(Get(cut[i], "title"), Split(toLowerCase(q), " "))])
  ELSE images

UpdatedSort(images, sortBy, q) ==
  IF sortBy = Relevant
  THEN StableSortByKey(images,
         [i \in 1..Len(images) |->
            0 - Relevance(Get(images[i], "title"), Split(toLowerCase(q), " "))])
  ELSE IF sortBy = BySource
  THEN StableSortByKey(images, [i \in 1..Len(images) |-> SourceIndex(images[i])])
  ELSE images

UpdatedResponse(images, suggestions, terms, pairings, palette) ==
  [status |-> 200, images |-> images, aiSuggestions |-> suggestions,
   relatedTerms |-> terms, fontPairings |-> pairings, colorPalette |-> palette]

\* the requests and the upstream replies of the model
Fonts == {<<>>, <<"I", "n", "t", "e", "r">>}

\* q, font and color of the requests: no q; a two-character q with every
\* combination of font and color; a longer q of two words
UpdatedRequests ==
  {[q |-> <<>>, font |-> <<>>, color |-> <<>>],
   [q |-> <<"a", " ", "b">>, font |-> <<>>, color |-> <<>>]}
  \cup {[q |-> <<"a", "b">>, font |-> font, color |-> color] :
          font \in Fonts, color \in Colors}
SortBys == {<<>>, Relevant, BySource}

RelatedReplies == {Failure, [ok |-> TRUE, data |-> <<" ", "x", ",", " ">>]}

DribbbleReplies ==
  {Failure,
   [ok |-> TRUE,
    data |-> <<[img |-> TRUE, src |-> Url1, title |-> <<"a", " ", "b">>,
                chips |-> FALSE, colorMatch |-> FALSE],
               [img |-> TRUE, src |-> Url2, title |-> <<>>,
                chips |-> TRUE, colorMatch |-> FALSE]>>]}

UpdatedSerpReplies ==
  {Failure,
   [ok |-> TRUE,
    data |-> <<[original |-> Url1, title |-> <<"A">>],
               [original |-> Url3, title |-> <<>>]>>]}

DesignspirationReplies ==
  {Failure,
   [ok |-> TRUE,
    data |-> <<[img |-> FALSE, src |-> <<>>], [img |-> TRUE, src |-> Url2]>>]}

MuzliReplies ==
  {Failure,
   [ok |-> TRUE,
    data |-> <<[img |-> TRUE, src |-> Url4, titleEl |-> TRUE,
                title |-> <<" ", "a", " ", "b", " ", "a", "b">>]>>]}

InstagramReplies ==
  {Failure,
   [ok |-> TRUE,
    data |-> <<[src |-> Url2, alt |-> <<>>], [src |-> <<>>, alt |-> <<"a">>]>>]}

FontPairingReplies ==
  {Failure,
   [ok |-> TRUE,
    data |-> <<[headlineFont |-> <<"I", "n", "t", "e", "r">>,
                bodyFont |-> <<"L", "o", "r", "a">>,
                style |-> <<"m", "o", "d", "e", "r", "n">>]>>]}

PaletteReplies ==
  {Failure,
   [ok |-> TRUE,
    data |-> <<[hex |-> <<"#", "F", "0", "0">>, keyword |-> <<"r", "e", "d">>],
               [hex |-> <<"#", "1", "2", "3">>, keyword |-> <<>>]>>]}

InitUpdated ==
  /\ pc = "idle"
  /\ req = NoQuery
  /\ calls = <<>>
  /\ aiSuggestions = <<>>
  /\ colorPalette = <<>>
  /\ heading = <<>>
  /\ res = NoResponse
  /\ invoked = 0
  /\ relatedTerms = <<>>
  /\ browser \in {"undefined", "launched"}
  /\ chromium = <<>>

\* lines 523-541: validation, then getRelatedDesignTerms is called
UpdatedReceive ==
  /\ pc = "idle"
  /\ \E r \in UpdatedRequests :
       /\ req' = [NoQuery EXCEPT !.q = r.q, !.font = r.font, !.color = r.color]
       /\ IF QueryMissing(r.q)
          THEN /\ res' = Response(400, <<>>)
               /\ pc' = "done"
               /\ invoked' = invoked
          ELSE /\ res' = res
               /\ pc' = "awaitRelatedTerms"
               /\ invoked' = invoked + 1
  /\ UNCHANGED <<calls, aiSuggestions, colorPalette, heading, relatedTerms, browser, chromium>>

\* lines 541-599: the related terms arrive and every adapter of
\* searchPromises is called; a scraper that finds no browser handle awaits
\* initBrowser() first
RelatedTermsSettle ==
  /\ pc = "awaitRelatedTerms"
  /\ \E reply \in RelatedReplies :
       /\ relatedTerms' = getRelatedDesignTerms(reply)
       /\ LET promises == UpdatedSearchPromises(req.q, req.font, req.color, relatedTerms')
          IN /\ calls' = [i \in 1..Len(promises) |->
                           [fn |-> promises[i].fn, limit |-> promises[i].limit,
                            init |-> promises[i].fn \in Scrapers /\ browser /= "launched",
                            st |-> "pending", val |-> <<>>, err |-> FALSE]]
             /\ invoked' = invoked + Len(promises)
  /\ pc' = "awaitAllSettled"
  /\ UNCHANGED <<req, aiSuggestions, colorPalette, heading, res, browser, chromium>>

\* the outcome of a settled call, kept in its slot
Settled(call, outcome) ==
  [call EXCEPT !.st = outcome.st, !.val = outcome.val, !.err = outcome.err]

\* one call that needs no browser handle settles
FetchSettle ==
  /\ pc = "awaitAllSettled"
  /\ \E i \in DOMAIN calls :
       /\ calls[i].st = "pending"
       /\ calls[i].fn \notin Scrapers
       /\ \E outcome \in
            CASE calls[i].fn = "scrapeDribbble" ->
                   {scrapeDribbble(r, calls[i].limit, req.color) : r \in DribbbleReplies}
              [] calls[i].fn = "fetchSerpAPIImages" ->
                   {UpdatedFetchSerpAPIImages(r, calls[i].limit) : r \in UpdatedSerpReplies}
              [] calls[i].fn = "getDesignSuggestions" ->
                   {UpdatedGetDesignSuggestions(r) : r \in GeminiReplies}
              [] calls[i].fn = "getFontPairings" ->
                   {getFontPairings(r) : r \in FontPairingReplies}
              [] calls[i].fn = "generateColorPalette" ->
                   {generateColorPalette(r) : r \in PaletteReplies} :
            calls' = [calls EXCEPT ![i] = Settled(calls[i], outcome)]
  /\ UNCHANGED <<pc, req, aiSuggestions, colorPalette, heading, res, invoked,
                 relatedTerms, browser, chromium>>

\* one scraper call settles; its initBrowser(), if it awaited one, has set
\* the shared handle or has thrown
ScraperSettle ==
  /\ pc = "awaitAllSettled"
  /\ \E i \in DOMAIN calls :
       /\ calls[i].st = "pending"
       /\ calls[i].fn \in Scrapers
       /\ \E launch \in (IF calls[i].init THEN {"ok", "failed"} ELSE {"none"}) :
            /\ browser' = IF launch = "ok" THEN "launched" ELSE browser
            /\ chromium' = chromium
            /\ \E outcome \in
                 CASE calls[i].fn = "scrapeDesignspiration" ->
                        {scrapeDesignspiration(r, calls[i].limit, launch) :
                           r \in DesignspirationReplies}
                   [] calls[i].fn = "scrapeMuzli" ->
                        {scrapeMuzli(r, primaryQuery(req.q), calls[i].limit, launch) :
                           r \in MuzliReplies}
                   [] calls[i].fn = "scrapeInstagram" ->
                        {scrapeInstagram(r, calls[i].limit, launch) :
                           r \in InstagramReplies} :
                 calls' = [calls EXCEPT ![i] = Settled(calls[i], outcome)]
  /\ UNCHANGED <<pc, req, aiSuggestions, colorPalette, heading, res, invoked,
                 relatedTerms>>

\* a plausible slip: Promise.all in the place of Promise.allSettled
SettledOnFirstRejection(cs) == PromiseAll(cs)

\* the state of Promise.allSettled over the calls: it is never rejected
PromiseAllSettled(cs) ==
  IF \E i \in DOMAIN cs : cs[i].st = "pending" THEN "pending" ELSE "fulfilled"

\* lines 599-661: Promise.allSettled resolves; the results are organised,
\* deduplicated, sorted (sortBy is read here) and sent, or the TypeError
\* of the comparator reaches the catch block
AllSettled ==
  /\ pc = "awaitAllSettled"
  /\ PromiseAllSettled(calls) /= "pending"
  /\ \E sortBy \in SortBys :
       LET uniqueImages == DedupByImage(UpdatedAllImages(calls, req.font, req.color))
       IN /\ req' = [req EXCEPT !.sortBy = sortBy]
          /\ aiSuggestions' = IF calls[3].st = "fulfilled" THEN calls[3].val
                              ELSE NoSuggestionsAvailable
          /\ colorPalette' = UpdatedColorPalette(calls, req.color)
          /\ IF SortThrows(uniqueImages, sortBy)
             THEN res' = Response(500, <<>>)
             ELSE res' = UpdatedResponse(
                           Slice0(UpdatedSort(uniqueImages, sortBy, req.q), SliceLimit),
                           aiSuggestions', relatedTerms,
                           UpdatedFontPairings(calls, req.font), colorPalette')
  /\ pc' = "done"
  /\ UNCHANGED <<calls, heading, invoked, relatedTerms, browser, chromium>>

NextUpdated ==
  UpdatedReceive \/ RelatedTermsSettle \/ FetchSettle \/ ScraperSettle \/ AllSettled

SpecUpdated == InitUpdated /\ [][NextUpdated]_vars

\* C3 (as claimed): a request with a non-empty q is answered 200, whatever
\* providers fail and whichever of font, color and sortBy are given.
C3_NonEmptyQueryGets200 ==
  (pc = "done" /\ req.q /= <<>>) => res.status = 200

\* C6 (as claimed): no provider adapter call rejects to its caller; every
\* settled call is fulfilled.
C6_AdaptersNeverReject ==
  \A i \in DOMAIN calls : calls[i].st /= "rejected"

(***************************************************************************)
(* SpecSort: the tail of the /search handler of src/updatedserver.txt      *)
(* (deduplicate, sort, slice) applied to lists of items: every list of at  *)
(* most MaxSortLen items over SortTitles, and each of them repeated to     *)
(* more than SliceLimit items.                                             *)
(***************************************************************************)
MaxSortLen == 3     \* longest list of titles enumerated in SpecSort

SortQuery == <<"a", " ", "b">>
SortTitles == {<<"A", " ", "b">>, <<"a">>, <<"x">>}

\* the image URL of the item at position i; the URLs repeat after
\* SliceLimit + 2 positions
SortUrl(i) ==
  <<"h", "t", "t", "p", "s", ":", "/", "/", "c", "/",
    LowerCase[((i - 1) % (SliceLimit + 2)) + 1]>>

SortItems(titles) ==
  [i \in 1..Len(titles) |->
    [image |-> SortUrl(i), title |-> titles[i], source |-> "Google Images"]]

\* titles repeated to SliceLimit + MaxSortLen items
Repeated(titles) ==
  [i \in 1..(SliceLimit + MaxSortLen) |-> titles[((i - 1) % Len(titles)) + 1]]

SortInputs ==
  {SortItems(t) : t \in SeqsUpTo(SortTitles, MaxSortLen)}
  \cup {SortItems(Repeated(t)) : t \in SeqsUpTo(SortTitles, MaxSortLen) \ {<<>>}}

InitSort ==
  /\ pc = "input"
  /\ \E allImages \in SortInputs : calls = <<Fulfilled(allImages, FALSE)>>
  /\ req = [NoQuery EXCEPT !.q = SortQuery]
  /\ aiSuggestions = <<>>
  /\ colorPalette = <<>>
  /\ heading = <<>>
  /\ res = NoResponse
  /\ invoked = 0
  /\ relatedTerms = <<>>
  /\ browser = "undefined"
  /\ chromium = <<>>

\* lines 619-657 of the handler
ApplySort ==
  /\ pc = "input"
  /\ pc' = "sort"
  /\ \E sortBy \in SortBys :
       /\ req' = [req EXCEPT !.sortBy = sortBy]
       /\ res' = UpdatedResponse(
                   Slice0(UpdatedSort(DedupByImage(calls[1].val), sortBy, req.q),
                          SliceLimit),
                   <<>>, <<>>, <<>>, <<>>)
  /\ UNCHANGED <<calls, aiSuggestions, colorPalette, heading, invoked,
                 relatedTerms, browser, chromium>>

NextSort == ApplySort

SpecSort == InitSort /\ [][NextSort]_vars

\* uniqueImages: the list the sort was given
SortedFrom == DedupByImage(calls[1].val)

\* position in uniqueImages of the item with this image URL
PositionOf(url) == CHOOSE i \in 1..Len(SortedFrom) : SortedFrom[i].image = url

\* number of query tokens in the title of an item
TokensIn(img) == Relevance(img.title, Split(toLowerCase(req.q), " "))

RelevanceSortCase == pc = "sort" /\ req.sortBy = Relevant

\* C11: with sortBy=relevance, two items of the response whose titles hold
\* the same number of query tokens are in the order they had after
\* deduplication.
C11_TiesKeepTheirOrder ==
  RelevanceSortCase =>
    \A i, j \in 1..Len(res.images) :
      (i < j /\ TokensIn(res.images[i]) = TokensIn(res.images[j]))
        => PositionOf(res.images[i].image) < PositionOf(res.images[j].image)

\* C11 witness: the sort moved an item and left two equal items in the
\* response
C11_Witness ==
  /\ RelevanceSortCase
  /\ res.images /= Slice0(SortedFrom, SliceLimit)
  /\ \E i, j \in 1..Len(res.images) :
       i < j /\ TokensIn(res.images[i]) = TokensIn(res.images[j])

\* C20: with sortBy=relevance, the images of the response are in
\* non-increasing order of the number of query tokens in the title, and they
\* are the front of the sorted deduplicated list: SliceLimit of them (all, if
\* there are fewer), every item left out holding no more tokens than the last
\* item kept.
C20_RelevanceOrderAndFront ==
  RelevanceSortCase =>
    /\ \A i, j \in 1..Len(res.images) :
         i < j => TokensIn(res.images[i]) >= TokensIn(res.images[j])
    /\ Len(res.images) = Min(SliceLimit, Len(SortedFrom))
    /\ \A i \in 1..Len(res.images) :
         \E k \in 1..Len(SortedFrom) : SortedFrom[k] = res.images[i]
    /\ \A k \in 1..Len(SortedFrom) :
         (\A i \in 1..Len(res.images) : res.images[i] /= SortedFrom[k])
           => TokensIn(SortedFrom[k]) <= TokensIn(res.images[Len(res.images)])

\* C20 witness: more than SliceLimit items were sorted, an item of the cut
\* front was left out and a later one was kept
C20_Witness ==
  /\ RelevanceSortCase
  /\ Len(SortedFrom) > SliceLimit
  /\ \E k \in 1..SliceLimit :
       \A i \in 1..Len(res.images) : res.images[i] /= SortedFrom[k]
  /\ TokensIn(res.images[1]) > TokensIn(res.images[Len(res.images)])

(***************************************************************************)
(* SpecTerms: getRelatedDesignTerms of src/updatedserver.txt applied to    *)
(* every reply text of at most MaxTextLen characters over TermAlphabet and *)
(* to a reply of sixteen terms; the terms go to the response unchanged.    *)
(***************************************************************************)
TermAlphabet == {"x", "y", ",", " "}

\* "a,b,c,...,p"
SixteenTerms ==
  [i \in 1..31 |-> IF i % 2 = 1 THEN LowerCase[(i + 1) \div 2] ELSE ","]

TermReplies ==
  {Failure}
  \cup {[ok |-> TRUE, data |-> t] :
          t \in SeqsUpTo(TermAlphabet, MaxTextLen) \cup {SixteenTerms}}

InitTerms ==
  /\ pc = "input"
  /\ req = [NoQuery EXCEPT !.q = <<"a", "b">>]
  /\ calls = <<>>
  /\ aiSuggestions = <<>>
  /\ colorPalette = <<>>
  /\ heading = <<>>
  /\ res = NoResponse
  /\ invoked = 0
  /\ relatedTerms = <<>>
  /\ browser = "undefined"
  /\ chromium = <<>>

\* line 541, and relatedTerms of res.json at line 654
ApplyGetRelatedDesignTerms ==
  /\ pc = "input"
  /\ pc' = "terms"
  /\ \E reply \in TermReplies :
       /\ relatedTerms' = getRelatedDesignTerms(reply)
       /\ res' = UpdatedResponse(<<>>, <<>>, getRelatedDesignTerms(reply), <<>>, <<>>)
  /\ invoked' = invoked + 1
  /\ UNCHANGED <<req, calls, aiSuggestions, colorPalette, heading, browser, chromium>>

NextTerms == ApplyGetRelatedDesignTerms

SpecTerms == InitTerms /\ [][NextTerms]_vars

\* C12: the relatedTerms of a response are at most 15 and no term is
\* repeated.
C12_RelatedTermsBoundedUnique ==
  pc = "terms" =>
    /\ Len(res.relatedTerms) <= 15
    /\ NoDuplicates(res.relatedTerms)

(***************************************************************************)
(* Claims about the items of the images list.                              *)
(***************************************************************************)
\* C13: every element of the images of a response of src/server.js has a
\* present, non-empty image URL.
C13_EveryImageHasUrl ==
  (pc = "done" /\ res.status = 200) =>
    \A i \in 1..Len(res.images) : Get(res.images[i], "image") /= Undefined

\* C14: every item of the images of a response of src/updatedserver.txt
\* carries a category label.
C14_EveryImageHasCategory ==
  (pc = "done" /\ res.status = 200) =>
    \A i \in 1..Len(res.images) : Get(res.images[i], "category") /= Undefined

(***************************************************************************)
(* SpecFair: the /search handler of src/server.js with upstreams that may  *)
(* accept a request and never answer it.  The axios calls to the           *)
(* generative API (line 355) and to SerpAPI (lines 172-180) pass no        *)
(* timeout option, and the default of axios is no timeout: the promise of  *)
(* a silent upstream stays pending.  Only the HEAD probe of validateImage  *)
(* (line 162) has one.                                                     *)
(***************************************************************************)
\* a call whose upstream never answers
Silent == [st |-> "silent", val |-> <<>>, err |-> FALSE]

\* the generative upstream never answers: await getDesignSuggestions does
\* not return
SuggestionsSilent ==
  /\ pc = "awaitSuggestions"
  /\ pc' = "awaitSuggestionsSilent"
  /\ UNCHANGED <<req, calls, aiSuggestions, colorPalette, heading, res, invoked,
                 relatedTerms, browser, chromium>>

\* the SerpAPI upstream of one of the three image searches never answers
SerpSilent ==
  /\ pc = "awaitAll"
  /\ \E i \in 1..3 :
       /\ calls[i].st = "pending"
       /\ calls' = [calls EXCEPT ![i] = Silent]
  /\ UNCHANGED <<pc, req, aiSuggestions, colorPalette, heading, res, invoked,
                 relatedTerms, browser, chromium>>

\* the steps of the handler for the request q=ab without colour, the
\* generative call failing when it answers
FairSteps ==
  \/ Receive /\ req'.q = <<"a", "b">> /\ req'.color = <<>>
  \/ SuggestionsSettle /\ aiSuggestions' = CouldNotGenerate
  \/ CallSettle
  \/ Join
  \/ AIImageSettle

NextFair == FairSteps \/ SuggestionsSilent \/ SerpSilent

\* the event loop runs every continuation that is ready, and an upstream that
\* answers does so eventually; nothing forces an upstream to be silent
SpecFair == Init /\ [][NextFair]_vars /\ WF_vars(FairSteps)

\* C15: a request that passed validation is eventually answered, also when
\* an upstream never answers.
C15_EventuallyResponds == (pc = "awaitSuggestions") ~> (pc = "done")

(***************************************************************************)
(* Claims about the order in which the /search handler of                  *)
(* src/updatedserver.txt starts and awaits its calls.                      *)
(***************************************************************************)
ImageProviders ==
  {"scrapeDribbble", "fetchSerpAPIImages", "scrapeDesignspiration", "scrapeMuzli",
   "scrapeInstagram"}

\* the calls of getDesignSuggestions made for the request
SuggestionCalls == {i \in DOMAIN calls : calls[i].fn = "getDesignSuggestions"}

\* C16: the AI suggestion text is fetched at most once, and when an image
\* provider call has been started the suggestion call has completed.
C16_SuggestionsBeforeFanOut ==
  /\ Cardinality(SuggestionCalls) <= 1
  /\ (\E i \in DOMAIN calls : calls[i].fn \in ImageProviders)
       => \E j \in SuggestionCalls : calls[j].st /= "pending"

\* C17: when the response is sent every provider call launched for the
\* request has settled, also when one of them has failed.
C17_ResponseAfterAllSettled ==
  (pc = "done" /\ res.status /= 0) =>
    \A i \in DOMAIN calls : calls[i].st \in {"fulfilled", "rejected"}

\* C17 witness: a response was sent for a batch in which one call was
\* rejected and another one delivered an image of the response
C17_Witness ==
  /\ pc = "done"
  /\ res.status = 200
  /\ \E i, j \in DOMAIN calls :
       /\ calls[i].st = "rejected"
       /\ calls[j].st = "fulfilled"
       /\ calls[j].fn \in ImageProviders
       /\ \E k \in 1..Len(calls[j].val) : Includes(res.images, calls[j].val[k])

(***************************************************************************)
(* Claims about the fan-out of the /search handler of src/server.js.       *)
(***************************************************************************)
\* the adapters invoked so far include fetchFreepikAIImage: the generative
\* call and the seven fetches come before it
AIImageStarted == invoked > 1 + Len(ServerSlots)

\* C18: when ai=true, the AI image generation is started with the other
\* provider fetches: it has been started whenever the handler waits for
\* their outcome.
C18_AIImageInFanOut ==
  (pc = "awaitAll" /\ req.ai = True) => AIImageStarted

(***************************************************************************)
(* SpecOrder: the seven calls of a fan-out complete in any order, each     *)
(* with the result its provider gives; the position at which a call        *)
(* completed is kept in its field at.  Then the results are combined as    *)
(* in the second program of src/unnamed/part_000 (lines 963-1036) or as in *)
(* src/updatedserver.txt (lines 598-652).                                  *)
(***************************************************************************)
OrderItem(source, url) == [image |-> url, title |-> TitleLogo, source |-> source]

\* what the providers of the slots that deliver items give
EnhancedGiven ==
  {<<OrderItem("Google Images", Url1)>>,
   <<OrderItem("Google Images", Url1), OrderItem("Google Images", Url2)>>}
FreepikMainGiven == {<<OrderItem("Freepik", Url2)>>}
DesignPlatformsGiven ==
  {<<OrderItem("Pinterest", Url1)>>,
   <<OrderItem("Pinterest", Url2), OrderItem("Pinterest", Url1)>>}

InFlight(given) ==
  [st |-> "pending", val |-> <<>>, err |-> FALSE, given |-> given, at |-> 0]

InitOrder ==
  /\ pc = "awaitAll"
  /\ \E enhanced \in EnhancedGiven, freepikMain \in FreepikMainGiven,
        designPlatforms \in DesignPlatformsGiven :
       calls = <<InFlight(enhanced), InFlight(<<>>), InFlight(freepikMain),
                 InFlight(<<>>), InFlight(<<>>), InFlight(<<>>),
                 InFlight(designPlatforms)>>
  /\ req = [NoQuery EXCEPT !.q = <<"a", "b">>]
  /\ aiSuggestions = <<>>
  /\ colorPalette = <<>>
  /\ heading = <<>>
  /\ res = NoResponse
  /\ invoked = Len(PlatformSlots)
  /\ relatedTerms = <<>>
  /\ browser = "undefined"
  /\ chromium = <<>>

\* one of the calls completes with what its provider gives
CallCompletes ==
  /\ pc = "awaitAll"
  /\ \E i \in DOMAIN calls :
       /\ calls[i].st = "pending"
       /\ calls' = [calls EXCEPT ![i] =
            [st |-> "fulfilled", val |-> calls[i].given, err |-> FALSE,
             given |-> calls[i].given,
             at |-> 1 + Cardinality({j \in DOMAIN calls : calls[j].st /= "pending"})]]
  /\ UNCHANGED <<pc, req, aiSuggestions, colorPalette, heading, res, invoked,
                 relatedTerms, browser, chromium>>

\* a plausible slip: the results are taken in the order of completion
ValuesInCompletionOrder(cs) ==
  [r \in 1..Len(cs) |-> cs[CHOOSE i \in DOMAIN cs : cs[i].at = r]]

\* the array Promise.all and Promise.allSettled resolve to: the results in
\* the order of the promises given
PromiseAllValues(cs) == [i \in 1..Len(cs) |-> cs[i]]

\* part_000, lines 973-1036 (ai is not "true")
JoinPlatform ==
  /\ pc = "awaitAll"
  /\ PromiseAll(calls) = "fulfilled"
  /\ pc' = "JoinPlatform"
  /\ res' = Response(200, PlatformAllImages(PromiseAllValues(calls), <<>>))
  /\ UNCHANGED <<req, calls, aiSuggestions, colorPalette, heading, invoked,
                 relatedTerms, browser, chromium>>

\* updatedserver.txt, lines 599-652, every slot holding images
JoinUpdated ==
  /\ pc = "awaitAll"
  /\ PromiseAllSettled(calls) = "fulfilled"
  /\ pc' = "JoinUpdated"
  /\ \E sortBy \in SortBys :
       LET results == PromiseAllValues(calls)
           allImages == Flatten([i \in 1..Len(results) |-> results[i].val])
       IN /\ req' = [req EXCEPT !.sortBy = sortBy]
          /\ res' = Response(200,
                      Slice0(UpdatedSort(DedupByImage(allImages), sortBy, req.q),
                             SliceLimit))
  /\ UNCHANGED <<calls, aiSuggestions, colorPalette, heading, invoked,
                 relatedTerms, browser, chromium>>

NextOrder == CallCompletes \/ JoinPlatform \/ JoinUpdated

SpecOrder == InitOrder /\ [][NextOrder]_vars

\* the per-provider results, by slot, whatever the order of completion
GivenBySlot == [i \in 1..Len(calls) |-> Fulfilled(calls[i].given, FALSE)]

\* C19: the images of the response are those computed from the per-provider
\* results taken by slot; the order in which the calls completed has no
\* part in them.
C19_ImagesIndependentOfCompletionOrder ==
  /\ pc = "JoinPlatform" => res.images = PlatformAllImages(GivenBySlot, <<>>)
  /\ pc = "JoinUpdated" =>
       res.images =
         Slice0(UpdatedSort(DedupByImage(
                  Flatten([i \in 1..Len(calls) |-> calls[i].given])),
                  req.sortBy, req.q), SliceLimit)

\* C19 witness: the call of a later slot completed before the call of an
\* earlier slot, both delivered an item with the same image URL, and the
\* response was sent
C19_Witness ==
  /\ pc \in {"JoinPlatform", "JoinUpdated"}
  /\ \E i, j \in DOMAIN calls :
       /\ i < j
       /\ calls[i].at > calls[j].at
       /\ \E a \in 1..Len(calls[i].val), b \in 1..Len(calls[j].val) :
            calls[i].val[a].image = calls[j].val[b].image

(***************************************************************************)
(* SpecBrowser: the browser processes of src/updatedserver.txt.  The       *)
(* startup call of initBrowser (line 31) is in flight when the server      *)
(* starts to listen; /search calls scrapeDesignspiration (scrapeMuzli and  *)
(* scrapeInstagram follow the same lines) and scrapeDribbble; a shutdown   *)
(* signal may arrive at any moment.  browser is the index in chromium of   *)
(* the process the shared handle points to, NoHandle while it is           *)
(* undefined.  A call is [fn, at, proc, page]: its position, the process   *)
(* it launched, and the state of the page it opened.                       *)
(***************************************************************************)
MaxScraperCalls == 2    \* scraper calls made while the server runs

NoHandle == 0

Process(st, pages) == [st |-> st, pages |-> pages]

ScraperCall(fn, at, proc, page) == [fn |-> fn, at |-> at, proc |-> proc, page |-> page]

\* page.goto, page.waitForSelector and page.evaluate: what can happen
PageOutcomes == {"ok", "navigationError", "evaluationError", "timeout"}

InitBrowser ==
  /\ pc = "running"
  /\ req = NoQuery
  /\ calls = <<ScraperCall("initBrowser", "awaitLaunch", 1, "none")>>
  /\ aiSuggestions = <<>>
  /\ colorPalette = <<>>
  /\ heading = <<>>
  /\ res = NoResponse
  /\ invoked = 0
  /\ relatedTerms = <<>>
  /\ browser = NoHandle
  /\ chromium = <<Process("launching", 0)>>

Alive == pc /= "exited"

\* scrapeDesignspiration is called: `if (!browser) await initBrowser()`
\* starts a launch when the handle is undefined
ScraperCalled ==
  /\ Alive
  /\ invoked < MaxScraperCalls
  /\ invoked' = invoked + 1
  /\ IF browser = NoHandle
     THEN /\ chromium' = Append(chromium, Process("launching", 0))
          /\ calls' = Append(calls, ScraperCall("scrapeDesignspiration", "awaitLaunch",
                                                Len(chromium) + 1, "none"))
     ELSE /\ chromium' = chromium
          /\ calls' = Append(calls, ScraperCall("scrapeDesignspiration", "try", 0, "none"))
  /\ UNCHANGED <<pc, req, aiSuggestions, colorPalette, heading, res, relatedTerms,
                 browser>>

\* puppeteer.launch of an initBrowser call settles: `browser = await ...`
\* assigns the shared handle; a failure rejects initBrowser, which the
\* startup call catches and a scraper does not
LaunchSettles ==
  /\ Alive
  /\ \E i \in DOMAIN calls :
       /\ calls[i].at = "awaitLaunch"
       /\ calls[i].fn /= "scrapeDribbble"
       /\ \/ /\ chromium' = [chromium EXCEPT ![calls[i].proc].st = "open"]
             /\ browser' = calls[i].proc
             /\ calls' = [calls EXCEPT ![i].at =
                  IF calls[i].fn = "initBrowser" THEN "fulfilled" ELSE "try"]
          \/ /\ chromium' = [chromium EXCEPT ![calls[i].proc].st = "failed"]
             /\ browser' = browser
             /\ calls' = [calls EXCEPT ![i].at =
                  IF calls[i].fn = "initBrowser" THEN "fulfilled" ELSE "rejected"]
  /\ UNCHANGED <<pc, req, aiSuggestions, colorPalette, heading, res, invoked,
                 relatedTerms>>

\* `const page = await browser.newPage()` on the shared handle as it is now;
\* it throws into the catch block when that process was closed
OpenPage ==
  /\ Alive
  /\ \E i \in DOMAIN calls :
       /\ calls[i].at = "try"
       /\ IF chromium[browser].st = "open"
          THEN /\ chromium' = [chromium EXCEPT ![browser].pages = @ + 1]
               /\ calls' = [calls EXCEPT ![i] =
                    ScraperCall(calls[i].fn, "page", browser, "open")]
          ELSE /\ chromium' = chromium
               /\ calls' = [calls EXCEPT ![i].at = "fulfilled"]
  /\ UNCHANGED <<pc, req, aiSuggestions, colorPalette, heading, res, invoked,
                 relatedTerms, browser>>

\* lines 159-203: the page work ends; page.close() is the last statement of
\* the try block, the catch block returns [] and closes nothing
PageSettles ==
  /\ Alive
  /\ \E i \in DOMAIN calls, outcome \in PageOutcomes :
       /\ calls[i].at = "page"
       /\ calls[i].fn = "scrapeDesignspiration"
       /\ IF chromium[calls[i].proc].st /= "open"
          THEN /\ chromium' = chromium
               /\ calls' = [calls EXCEPT ![i].at = "fulfilled", ![i].page = "closed"]
          ELSE IF outcome = "ok"
          THEN /\ chromium' = [chromium EXCEPT ![calls[i].proc].pages = @ - 1]
               /\ calls' = [calls EXCEPT ![i].at = "fulfilled", ![i].page = "closed"]
          ELSE /\ chromium' = chromium
               /\ calls' = [calls EXCEPT ![i].at = "fulfilled"]
  /\ UNCHANGED <<pc, req, aiSuggestions, colorPalette, heading, res, invoked,
                 relatedTerms, browser>>

\* scrapeDribbble is called: line 103 launches a browser of its own, held in
\* a const that shadows the shared handle
DribbbleCalled ==
  /\ Alive
  /\ invoked < MaxScraperCalls
  /\ invoked' = invoked + 1
  /\ chromium' = Append(chromium, Process("launching", 0))
  /\ calls' = Append(calls, ScraperCall("scrapeDribbble", "awaitLaunch",
                                        Len(chromium) + 1, "none"))
  /\ UNCHANGED <<pc, req, aiSuggestions, colorPalette, heading, res, relatedTerms,
                 browser>>

\* lines 103-104: the launch of scrapeDribbble settles and the page is opened
DribbbleLaunchSettles ==
  /\ Alive
  /\ \E i \in DOMAIN calls :
       /\ calls[i].at = "awaitLaunch"
       /\ calls[i].fn = "scrapeDribbble"
       /\ \/ /\ chromium' = [chromium EXCEPT ![calls[i].proc] = Process("open", 1)]
             /\ calls' = [calls EXCEPT ![i].at = "page", ![i].page = "open"]
          \/ /\ chromium' = [chromium EXCEPT ![calls[i].proc].st = "failed"]
             /\ calls' = [calls EXCEPT ![i].at = "fulfilled"]
  /\ UNCHANGED <<pc, req, aiSuggestions, colorPalette, heading, res, invoked,
                 relatedTerms, browser>>

\* lines 105-147: the page work ends; browser.close() is the last statement
\* of the try block
DribbbleSettles ==
  /\ Alive
  /\ \E i \in DOMAIN calls, outcome \in PageOutcomes :
       /\ calls[i].at = "page"
       /\ calls[i].fn = "scrapeDribbble"
       /\ IF outcome = "ok"
          THEN /\ chromium' = [chromium EXCEPT ![calls[i].proc] = Process("closed", 0)]
               /\ calls' = [calls EXCEPT ![i].at = "fulfilled", ![i].page = "closed"]
          ELSE /\ chromium' = chromium
               /\ calls' = [calls EXCEPT ![i].at = "fulfilled"]
  /\ UNCHANGED <<pc, req, aiSuggestions, colorPalette, heading, res, invoked,
                 relatedTerms, browser>>

\* lines 1024-1034: SIGINT or SIGTERM is handled: `if (browser) await
\* browser.close()`
Signal ==
  /\ pc = "running"
  /\ IF browser /= NoHandle
     THEN /\ chromium' = [chromium EXCEPT ![browser] =
                IF @.st = "open" THEN Process("closed", 0) ELSE @]
          /\ pc' = "closing"
     ELSE /\ chromium' = chromium
          /\ pc' = "exited"
  /\ UNCHANGED <<req, calls, aiSuggestions, colorPalette, heading, res, invoked,
                 relatedTerms, browser>>

\* process.exit()
Exit ==
  /\ pc = "closing"
  /\ pc' = "exited"
  /\ UNCHANGED <<req, calls, aiSuggestions, colorPalette, heading, res, invoked,
                 relatedTerms, browser, chromium>>

NextBrowser ==
  \/ ScraperCalled \/ LaunchSettles \/ OpenPage \/ PageSettles
  \/ DribbbleCalled \/ DribbbleLaunchSettles \/ DribbbleSettles
  \/ Signal \/ Exit

SpecBrowser == InitBrowser /\ [][NextBrowser]_vars

\* C21: when a scraper call has settled, the page it opened is closed, and
\* so is the browser scrapeDribbble launched.
C21_PagesClosedWhenSettled ==
  \A i \in DOMAIN calls :
    (calls[i].at \in {"fulfilled", "rejected"} /\ calls[i].fn /= "initBrowser") =>
      /\ calls[i].page /= "open"
      /\ (calls[i].fn = "scrapeDribbble" => chromium[calls[i].proc].st /= "open")

\* the browser processes that were started and did start
Launched == {p \in DOMAIN chromium : chromium[p].st /= "failed"}

\* C22: at most one browser process is launched, whatever the interleaving
\* of the startup initialization and the scraper calls.
C22_OneBrowserProcess == Cardinality(Launched) <= 1

\* C23: once the process has exited after a shutdown signal, no browser
\* process it launched is running or being launched.
C23_NoBrowserLeftAtExit ==
  pc = "exited" => \A p \in DOMAIN chromium : chromium[p].st \notin {"launching", "open"}

(***************************************************************************)
(* SpecLimit: adapters called with a limit of at most MaxLimit on upstream *)
(* replies of up to MaxLimit + 1 entries.                                  *)
(***************************************************************************)
MaxLimit == 2       \* largest limit an adapter is called with in SpecLimit

LimitReplies(entries) ==
  {Failure} \cup {[ok |-> TRUE, data |-> d] : d \in SeqsUpTo(entries, MaxLimit + 1)}

FreepikEntries == {[url |-> Url1, title |-> <<>>], [url |-> <<>>, title |-> TitleLogo]}

SerpEntries ==
  {[original |-> Url1, title |-> TitleLogo, probe |-> TRUE],
   [original |-> Url2, title |-> <<>>, probe |-> FALSE]}

MuzliEntries ==
  {[img |-> TRUE, src |-> Url4, titleEl |-> TRUE, title |-> <<"a", "b">>],
   [img |-> TRUE, src |-> Url3, titleEl |-> FALSE, title |-> <<>>],
   [img |-> FALSE, src |-> <<>>, titleEl |-> FALSE, title |-> <<>>]}

InitLimit ==
  /\ pc = "input"
  /\ req = [NoQuery EXCEPT !.q = <<"a", "b">>]
  /\ calls = <<>>
  /\ aiSuggestions = <<>>
  /\ colorPalette = <<>>
  /\ heading = <<>>
  /\ res = NoResponse
  /\ invoked = 0
  /\ relatedTerms = <<>>
  /\ browser = "undefined"
  /\ chromium = <<>>

\* the call made and what it returned
LimitCall(fn, limit, reply, result) ==
  [fn |-> fn, limit |-> limit, reply |-> reply, st |-> result.st, val |-> result.val,
   err |-> result.err]

ApplyFetchFreepikImages ==
  /\ pc = "input"
  /\ pc' = "fetchFreepikImages"
  /\ \E limit \in 1..MaxLimit, reply \in LimitReplies(FreepikEntries) :
       calls' = <<LimitCall("fetchFreepikImages", limit, reply,
                            fetchFreepikImages(reply, limit))>>
  /\ invoked' = invoked + 1
  /\ UNCHANGED <<req, aiSuggestions, colorPalette, heading, res, relatedTerms,
                 browser, chromium>>

ApplyFetchSerpAPIImages ==
  /\ pc = "input"
  /\ pc' = "fetchSerpAPIImages"
  /\ \E limit \in 1..MaxLimit, reply \in LimitReplies(SerpEntries) :
       calls' = <<LimitCall("fetchSerpAPIImages", limit, reply,
                            fetchSerpAPIImages(reply, limit))>>
  /\ invoked' = invoked + 1
  /\ UNCHANGED <<req, aiSuggestions, colorPalette, heading, res, relatedTerms,
                 browser, chromium>>

ApplyScrapeMuzli ==
  /\ pc = "input"
  /\ pc' = "scrapeMuzli"
  /\ \E limit \in 1..MaxLimit, reply \in LimitReplies(MuzliEntries) :
       calls' = <<LimitCall("scrapeMuzli", limit, reply,
                            scrapeMuzli(reply, primaryQuery(req.q), limit, "none"))>>
  /\ invoked' = invoked + 1
  /\ UNCHANGED <<req, aiSuggestions, colorPalette, heading, res, relatedTerms,
                 browser, chromium>>

NextLimit == ApplyFetchFreepikImages \/ ApplyFetchSerpAPIImages \/ ApplyScrapeMuzli

SpecLimit == InitLimit /\ [][NextLimit]_vars

\* C24: an adapter call made with a limit returns at most limit items.
C24_AtMostLimitItems ==
  \A i \in DOMAIN calls : Len(calls[i].val) <= calls[i].limit

(***************************************************************************)
(* SpecTwo: two /search requests of the second program of                  *)
(* src/unnamed/part_000 served concurrently.  calls[r] is the invocation   *)
(* of the handler for request r: its position, the results its providers   *)
(* give, and the images it sent.  The handlers interleave at their awaits. *)
(***************************************************************************)
Requests == {1, 2}

Invocation(at, given, images) == [at |-> at, given |-> given, images |-> images]

\* the results of the seven slots for one request
TwoGiven ==
  {<<enhanced, Fulfilled(<<>>, FALSE), Fulfilled(<<>>, FALSE), Fulfilled(<<>>, FALSE),
     Fulfilled(<<>>, FALSE), Fulfilled(<<>>, FALSE), Fulfilled(designPlatforms, FALSE)>> :
     enhanced \in DedupResults("Google Images", {Url1, Url2}),
     designPlatforms \in DesignPlatformsGiven}

InitTwo ==
  /\ pc = "running"
  /\ req = NoQuery
  /\ calls = [r \in Requests |-> Invocation("idle", <<>>, <<>>)]
  /\ aiSuggestions = <<>>
  /\ colorPalette = <<>>
  /\ heading = <<>>
  /\ res = NoResponse
  /\ invoked = 0
  /\ relatedTerms = <<>>
  /\ browser = "undefined"
  /\ chromium = <<>>

\* lines 916-981: a request arrives and its fan-out is awaited
TwoReceive ==
  /\ \E r \in Requests, given \in TwoGiven :
       /\ calls[r].at = "idle"
       /\ calls' = [calls EXCEPT ![r] = Invocation("awaitAll", given, <<>>)]
  /\ invoked' = invoked + Len(PlatformSlots)
  /\ UNCHANGED <<pc, req, aiSuggestions, colorPalette, heading, res, relatedTerms,
                 browser, chromium>>

\* the image URLs the invocations that have answered have seen
SeenByOthers(r) ==
  UNION {{calls[o].images[i].image : i \in 1..Len(calls[o].images)} :
           o \in {o \in Requests : o /= r /\ calls[o].at = "done"}}

\* lines 983-1058: Promise.all has resolved; the results are deduplicated,
\* labelled and sent
TwoRespond ==
  /\ \E r \in Requests :
       /\ calls[r].at = "awaitAll"
       /\ calls' = [calls EXCEPT ![r] =
            Invocation("done", calls[r].given,
                       PlatformAllImagesFrom(calls[r].given, <<>>,
                                             NewSeenUrls(SeenByOthers(r))))]
  /\ UNCHANGED <<pc, req, aiSuggestions, colorPalette, heading, res, invoked,
                 relatedTerms, browser, chromium>>

NextTwo == TwoReceive \/ TwoRespond

SpecTwo == InitTwo /\ [][NextTwo]_vars

\* C25: the images a request is answered with are those computed from its
\* own provider results alone, whatever the other request was given and
\* whenever it was served.
C25_RequestScoped ==
  \A r \in Requests :
    calls[r].at = "done" =>
      calls[r].images = PlatformAllImagesFrom(calls[r].given, <<>>, {})

\* C25 witness: both requests were answered and an image URL is in the
\* images of both
C25_Witness ==
  /\ \A r \in Requests : calls[r].at = "done"
  /\ \E i \in 1..Len(calls[1].images), j \in 1..Len(calls[2].images) :
       calls[1].images[i].image = calls[2].images[j].image
  /\ calls[1].given /= calls[2].given

(***************************************************************************)
(* SpecReply: lines 384-386 of src/server.js applied to every raw reply of *)
(* the generative provider in HeadingTexts: getDesignSuggestions rewrites  *)
(* the reply, extractHeading reads what it returns.                        *)
(***************************************************************************)
InitReply ==
  /\ pc = "input"
  /\ req = [NoQuery EXCEPT !.q = <<"a", "b">>]
  /\ calls = <<>>
  /\ aiSuggestions = <<>>
  /\ colorPalette = <<>>
  /\ heading = <<>>
  /\ res = NoResponse
  /\ invoked = 0
  /\ relatedTerms = <<>>
  /\ browser = "undefined"
  /\ chromium = <<>>

ApplyGetDesignSuggestions ==
  /\ pc = "input"
  /\ pc' = "heading"
  /\ \E text \in HeadingTexts :
       LET reply == [ok |-> TRUE, data |-> text]
       IN /\ calls' = <<[fn |-> "getDesignSuggestions", reply |-> reply]>>
          /\ aiSuggestions' = getDesignSuggestions(reply)
          /\ heading' = extractHeading(getDesignSuggestions(reply))
  /\ invoked' = invoked + 1
  /\ UNCHANGED <<req, colorPalette, res, relatedTerms, browser, chromium>>

NextReply == ApplyGetDesignSuggestions

SpecReply == InitReply /\ [][NextReply]_vars

\* the text the generative provider replied with
RawReply == calls[1].reply.data

\* C26: when the raw reply begins with a heading line "# T", T not blank,
\* the heading of the response is T trimmed.
C26_HeadingOfRawReply ==
  (/\ pc = "heading"
   /\ StartsAt(RawReply, 1, <<"#", " ">>)
   /\ trim(MarkdownHeadingText(FirstLine(RawReply))) /= <<>>)
    => heading = trim(MarkdownHeadingText(FirstLine(RawReply)))

(***************************************************************************)
(* Claims about the routing of the results in src/updatedserver.txt.       *)
(***************************************************************************)
\* the value of the call of fn, <<>> when it was not made or was rejected
ResultOf(fn) ==
  IF \E i \in DOMAIN calls : calls[i].fn = fn /\ calls[i].st = "fulfilled"
  THEN calls[CHOOSE i \in DOMAIN calls : calls[i].fn = fn /\ calls[i].st = "fulfilled"].val
  ELSE <<>>

\* C27: in a 200 response fontPairings is the result of getFontPairings (or
\* empty), colorPalette is the result of generateColorPalette (or empty),
\* and no font pairing or palette entry is among the images.
C27_SlotsRoutedToTheirFields ==
  (pc = "done" /\ res.status = 200) =>
    /\ res.fontPairings = ResultOf("getFontPairings")
    /\ res.colorPalette = ResultOf("generateColorPalette")
    /\ \A i \in 1..Len(res.images) :
         /\ ~Includes(ResultOf("getFontPairings"), res.images[i])
         /\ ~Includes(ResultOf("generateColorPalette"), res.images[i])

(***************************************************************************)
(* SpecIds: the deduplication by id of the second program of               *)
(* src/unnamed/part_000.                                                   *)
(*   id: Buffer.from(item.link).toString('base64').substring(0, 12)        *)
(* A base64 text is modelled as the sequence of its 6-bit values, Pad for  *)
(* the character "=".                                                      *)
(***************************************************************************)
MaxItems == 3       \* most upstream items given to processGoogleResults

Pad == 64

Digits == <<"0", "1", "2", "3", "4", "5", "6", "7", "8", "9">>

\* the byte of a character of a link (ASCII)
CharCode(c) ==
  IF \E k \in 1..Len(LowerCase) : LowerCase[k] = c
  THEN 96 + (CHOOSE k \in 1..Len(LowerCase) : LowerCase[k] = c)
  ELSE IF \E k \in 1..Len(Digits) : Digits[k] = c
  THEN 47 + (CHOOSE k \in 1..Len(Digits) : Digits[k] = c)
  ELSE IF c = ":" THEN 58
  ELSE IF c = "/" THEN 47
  ELSE 46

\* Buffer.from(s).toString('base64')
RECURSIVE Base64(_)
Base64(s) ==
  IF s = <<>> THEN <<>>
  ELSE LET b1 == CharCode(s[1])
       IN IF Len(s) = 1
          THEN <<b1 \div 4, (b1 % 4) * 16, Pad, Pad>>
          ELSE LET b2 == CharCode(s[2])
               IN IF Len(s) = 2
                  THEN <<b1 \div 4, (b1 % 4) * 16 + b2 \div 16, (b2 % 16) * 4, Pad>>
                  ELSE LET b3 == CharCode(s[3])
                       IN <<b1 \div 4, (b1 % 4) * 16 + b2 \div 16,
                            (b2 % 16) * 4 + b3 \div 64, b3 % 64>>
                          \o Base64(SubSeq(s, 4, Len(s)))

ImageId(link) == Slice0(Base64(link), 12)

\* the loop over seenIds: the first item of each id is kept
RECURSIVE UniqueById(_, _)
UniqueById(images, seenIds) ==
  IF images = <<>> THEN <<>>
  ELSE IF Head(images).id \in seenIds THEN UniqueById(Tail(images), seenIds)
  ELSE <<Head(images)>> \o UniqueById(Tail(images), seenIds \cup {Head(images).id})

processGoogleResults(items) ==
  UniqueById([i \in 1..Len(items) |->
               [image |-> items[i].link,
                title |-> OrElse(items[i].title, TitleDesignInspiration),
                source |-> "Google Images",
                id |-> ImageId(items[i].link)]],
             {})

\* the items fetchPinterestViaGoogle returns for the upstream items
PinterestItems(items) ==
  [i \in 1..Len(items) |->
    [image |-> items[i].link, title |-> items[i].title, source |-> "Pinterest",
     id |-> ImageId(items[i].link)]]

\* combinedResults of fetchDesignPlatformsInspiration
CombinedResults(mainResults, alternateResults) ==
  mainResults
  \o UniqueById(alternateResults, {mainResults[i].id : i \in 1..Len(mainResults)})

ShortUrl1 == <<"a", "/", "1">>
ShortUrl2 == <<"a", "/", "2">>

IdItems == {[link |-> l, title |-> TitleLogo] : l \in {Url1, Url2, Url3, ShortUrl1, ShortUrl2}}

InitIds ==
  /\ pc = "input"
  /\ req = NoQuery
  /\ calls = <<>>
  /\ aiSuggestions = <<>>
  /\ colorPalette = <<>>
  /\ heading = <<>>
  /\ res = NoResponse
  /\ invoked = 0
  /\ relatedTerms = <<>>
  /\ browser = "undefined"
  /\ chromium = <<>>

ApplyProcessGoogleResults ==
  /\ pc = "input"
  /\ pc' = "processGoogleResults"
  /\ \E items \in SeqsUpTo(IdItems, MaxItems) :
       /\ calls' = <<[fn |-> "processGoogleResults", given |-> items]>>
       /\ res' = Response(200, processGoogleResults(items))
  /\ UNCHANGED <<req, aiSuggestions, colorPalette, heading, invoked, relatedTerms,
                 browser, chromium>>

ApplyCombinedResults ==
  /\ pc = "input"
  /\ pc' = "fetchDesignPlatformsInspiration"
  /\ \E main \in SeqsUpTo(IdItems, 1), alternate \in SeqsUpTo(IdItems, MaxItems - 1) :
       /\ calls' = <<[fn |-> "fetchDesignPlatformsInspiration",
                      given |-> main \o alternate]>>
       /\ res' = Response(200, CombinedResults(PinterestItems(main),
                                               PinterestItems(alternate)))
  /\ UNCHANGED <<req, aiSuggestions, colorPalette, heading, invoked, relatedTerms,
                 browser, chromium>>

NextIds == ApplyProcessGoogleResults \/ ApplyCombinedResults

SpecIds == InitIds /\ [][NextIds]_vars

\* C28: every image URL among the items given is the image URL of an item
\* kept: an item whose URL differs from that of every earlier item is not
\* dropped.
C28_DistinctUrlsAllKept ==
  pc /= "input" =>
    {calls[1].given[i].link : i \in 1..Len(calls[1].given)}
      = {res.images[i].image : i \in 1..Len(res.images)}

(***************************************************************************)
(* Claims about what the /search handler of src/server.js keeps.           *)
(***************************************************************************)
\* C29: every item returned by a provider call the handler launched has its
\* image URL among the images of the 200 response.
C29_NoResultsDiscarded ==
  (pc = "done" /\ res.status = 200) =>
    \A i \in DOMAIN calls : \A n \in 1..Len(calls[i].val) :
      InImages(calls[i].val[n].image)

(***************************************************************************)
(* Claims about the random choice in extractAdvancedColorPalette.          *)
(***************************************************************************)
\* the colours found before the colour-theory step
FoundColors ==
  Unique(HexCodes(aiSuggestions)
         \o (IF req.color /= <<>> THEN <<req.color>> ELSE <<>>)
         \o generateColorFromNames(ColorNames(aiSuggestions)))

====
